---- MODULE Spec2Model ----
(***************************************************************************)
(* Water treatment plant 3D visualizer (wtp-visualizer.js, api-config.js). *)
(*                                                                         *)
(* The model covers the payload merge and dispatch path (updatePlantData,  *)
(* clearData, the simulated feed, the polled feed), the dashboard and      *)
(* label sinks, the fill-state engine of the render loop                   *)
(* (updateTankLevels: standard tanks, multi-instance tanks, the compound   *)
(* cone + cylinder tank), the other effects of a frame (updateMixers,      *)
(* updatePumps, updatePipeFlows, updateAlarmEffects), the polling control  *)
(* of api-config.js with its requests in flight, and mapComponent's scene  *)
(* index.                                                                  *)
(*                                                                         *)
(* Numbers.  Telemetry numbers (levels, pH, rates) are integers counting   *)
(* hundredths: Level 65 is 6500, pH 7.2 is 720.  Scales and fill fractions *)
(* are fixed-point integers counting 1/Unit, the model's resolution; every   *)
(* product or quotient is computed exactly and then rounded to the nearest *)
(* unit, as IEEE arithmetic rounds to the nearest double.  Time is in      *)
(* milliseconds.                                                           *)
(*                                                                         *)
(* Specifications.                                                         *)
(*   Spec      the data path: direct, simulated and polled payloads, reset *)
(*   SpecFill  the render loop beside payloads, frames of any length       *)
(*   SpecSLT   the compound tank alone, level payloads and frames          *)
(*   SpecSeq   the compound tank driven through the levels 100, 0, 100     *)
(*   FairFill  a standard tank, a level held, a steady frame rate          *)
(*   FairSLT   the compound tank, a level held, a steady frame rate        *)
(*   SpecPump  the two pumps: Status and Fault payloads, frames            *)
(*   SpecAlarm the alarm engine: alarm and fault payloads, frames          *)
(*   SpecPoll  the polled feed: start, timer, stop, responses, failures    *)
(*   SpecMap   loading the model: mapComponent node by node                *)
(*   SpecMixer the rotating components: status payloads, frames            *)
(*   SpecScene scenes lacking some of the semantic keys, frames            *)
(*   SpecPipe  the pipes: flow-rate payloads, frames                       *)
(*   SpecShape two-instance tanks read as an array or as one object        *)
(***************************************************************************)
EXTENDS Integers, Sequences, FiniteSets, TLC

VARIABLES
    plantData,            \* let plantData: the current snapshot
    dashboard,            \* the dashboard DOM sink: element id -> text, class
    labelText,            \* the 3D label sink: label id -> text
    components,           \* const components: the scene index
    levels,               \* animationTargets.levels: animKey -> current value
    simulationInterval,   \* let simulationInterval: TRUE while it holds a timer
    intervalTimers,       \* the live timers registered by startSimulation
    frameDelta,           \* the frame time of a run with a steady frame rate
    ticks,                \* frames rendered so far (capped by MaxTicks)
    updates,              \* payloads applied so far (capped by MaxUpdates)
    last,                 \* history: the last operation and the state before it
    pumpNodes,            \* components.pumps: pump -> position, userData, emissive
    pipeNodes,            \* components.pipes: pipe -> texture offset, emissive
    mixerRotation,        \* components.mixers: mixer -> rotation.y
    tankGlow,             \* the emissive overlay of every tank body
    activeAlarms,         \* let activeAlarms: the alarm texts of the last frame
    alarmPanel,           \* the alarm panel: shown or hidden, and its list
    clockTime,            \* history: the clock reading of the last observed frame
    polling               \* api-config.js: isPolling, the timer, requests in flight

\* What a frame writes besides the fill levels.
fxVars == <<pumpNodes, pipeNodes, mixerRotation, tankGlow, activeAlarms,
            alarmPanel>>

vars == <<plantData, dashboard, labelText, components, levels,
          simulationInterval, intervalTimers, frameDelta, ticks, updates, last,
          fxVars, clockTime, polling>>

(***************************************************************************)
(* Bounds of the model.                                                    *)
(***************************************************************************)
Unit == 1000         \* resolution of a fixed-point fraction: units per 1.0
MaxTicks == 5        \* frames of a run of SpecFill
MaxUpdates == 2      \* payloads applied in a run
MaxRequests == 4     \* requests issued in a run of SpecPoll
MaxNodes == 3        \* nodes of the model file visited in a run of SpecMap
MaxFrames == 2       \* frames rendered in a run of SpecScene and SpecPipe
Epsilon == 6         \* distance, in units, within which a value counts as converged

(***************************************************************************)
(* Arithmetic helpers.                                                     *)
(***************************************************************************)
\* a / b rounded to the nearest integer (b > 0), halves upward.
RoundDiv(a, b) == (2 * a + b) \div (2 * b)

Min(a, b) == IF a < b THEN a ELSE b

Abs(a) == IF a < 0 THEN 0 - a ELSE a

(***************************************************************************)
(* JavaScript values.  A subsystem value of the snapshot is an object, an  *)
(* array of objects or null; an object is a function from the names of its *)
(* own properties to their values, so an omitted property is a name that   *)
(* is not in its domain.                                                   *)
(***************************************************************************)
NoProps == [f \in {} |-> 0]

Obj(r) == [isArray |-> FALSE, elems |-> <<r>>]

Arr(s) == [isArray |-> TRUE, elems |-> s]

Null == [isArray |-> FALSE, elems |-> <<>>]

\* plantData.K as the receiver of an optional chain plantData.K?.f:
\* a sequence holding the object, or nothing when K is absent, null or an
\* array (an array has no such property).
ObjOf(pd, k) ==
    IF k \in DOMAIN pd /\ ~pd[k].isArray THEN pd[k].elems ELSE <<>>

\* Array.isArray(plantData.K)
IsArray(pd, k) == k \in DOMAIN pd /\ pd[k].isArray

\* Array.isArray(plantData.K) ? plantData.K[0] : plantData.K
FirstOf(pd, k) ==
    IF IsArray(pd, k)
    THEN (IF Len(pd[k].elems) > 0 THEN <<pd[k].elems[1]>> ELSE <<>>)
    ELSE ObjOf(pd, k)

\* r?.f !== undefined
Has(r, f) == Len(r) = 1 /\ f \in DOMAIN r[1]

\* r?.f is truthy, for a boolean property
Truthy(r, f) == Has(r, f) /\ r[1][f] = TRUE

(***************************************************************************)
(* getDefaultPayload                                                       *)
(***************************************************************************)
getDefaultPayload ==
    [ RWT |-> Obj([Level |-> 6500, High_Level_Alarm |-> FALSE,
                   Low_Level_Alarm |-> FALSE, Inflow_Rate |-> 12000,
                   Outflow_Rate |-> 11500, pH |-> 720, Turbidity |-> 4500]),
      CDP |-> Obj([Status |-> TRUE, Mode |-> "AUTO", Dosing_Rate |-> 550,
                   Total_Chemical_Used |-> 125000, Pressure |-> 250,
                   Fault |-> FALSE]),
      CST |-> Obj([Level |-> 7800, Low_Level_Alarm |-> FALSE]),
      CFT |-> Obj([Level |-> 5500, Mixer_Status |-> TRUE, pH |-> 680,
                   Turbidity |-> 2500, Dosing_Rate |-> 320]),
      SCT |-> Arr(<<[Level |-> 7000, Sludge_Level |-> 1500,
                     Turbidity_Outlet |-> 800, Scraper_Status |-> TRUE],
                    [Level |-> 6800, Sludge_Level |-> 1200,
                     Turbidity_Outlet |-> 700, Scraper_Status |-> TRUE]>>),
      FTR |-> Obj([Differential_Pressure |-> 80, Flow_Rate |-> 9500,
                   Backwash_Status |-> FALSE]),
      CWT |-> Arr(<<[Level |-> 8200, pH |-> 700, Turbidity |-> 50,
                     Residual_Chlorine |-> 80],
                    [Level |-> 8000, pH |-> 710, Turbidity |-> 40,
                     Residual_Chlorine |-> 70]>>),
      SLT |-> Obj([Level |-> 3500, Pump_Status |-> FALSE]),
      PPS |-> Obj([Status |-> TRUE, Mode |-> "AUTO", Flow_Rate |-> 11000,
                   Outlet_Pressure |-> 320, Fault |-> FALSE]),
      PLT |-> Obj([Total_Inflow |-> 12000, Total_Outflow |-> 11500,
                   System_Mode |-> "AUTO", Alarm_Status |-> FALSE]) ]

(***************************************************************************)
(* transformApiData: the polled response's component record w to a payload *)
(* (x || d takes d when x is absent, 0, '' or false).                      *)
(***************************************************************************)
OrNum(w, f, d) == IF f \in DOMAIN w /\ w[f] # 0 THEN w[f] ELSE d

OrBool(w, f) == f \in DOMAIN w /\ w[f] = TRUE

OrStr(w, f, d) == IF f \in DOMAIN w /\ w[f] # "" THEN w[f] ELSE d

transformApiData(w) ==
    LET sct == [Level |-> OrNum(w, "sctLevel", 0),
                Sludge_Level |-> OrNum(w, "sctSludgeLevel", 0),
                Turbidity_Outlet |-> OrNum(w, "sctTurbidityOutlet", 0),
                Scraper_Status |-> OrBool(w, "sctScraperStatus")]
        cwt == [Level |-> OrNum(w, "cwtLevel", 0),
                High_Level_Alarm |-> OrBool(w, "cwtLevelHighAlarm"),
                Low_Level_Alarm |-> OrBool(w, "cwtLevelLowAlarm"),
                pH |-> OrNum(w, "cwtph", 700),
                Turbidity |-> OrNum(w, "cwtTurbidity", 0),
                Residual_Chlorine |-> OrNum(w, "cwtResidualChlorine", 0)]
    IN
    [ RWT |-> Obj([Level |-> OrNum(w, "rwtLevel", 0),
                   High_Level_Alarm |-> OrBool(w, "rwtLevelHighAlarm"),
                   Low_Level_Alarm |-> OrBool(w, "rwtLevelLowAlarm"),
                   Inflow_Rate |-> OrNum(w, "rwtInflowRate", 0),
                   Outflow_Rate |-> OrNum(w, "rwtOutflowRate", 0),
                   pH |-> OrNum(w, "rwtph", 700),
                   Turbidity |-> OrNum(w, "rwtTurbidity", 0)]),
      CDP |-> Obj([Status |-> OrBool(w, "cdpStatus"),
                   Mode |-> OrStr(w, "cdpMode", "AUTO"),
                   Dosing_Rate |-> OrNum(w, "cdpDosingRate", 0),
                   Total_Chemical_Used |-> OrNum(w, "cdpTotalChemicalUsed", 0),
                   Pressure |-> OrNum(w, "cdpPressure", 0),
                   Fault |-> OrBool(w, "cdpFault")]),
      CST |-> Obj([Level |-> OrNum(w, "cstLevel", 0),
                   Low_Level_Alarm |-> OrBool(w, "cstLowLevelAlarm")]),
      CFT |-> Obj([Level |-> OrNum(w, "cftLevel", 0),
                   Mixer_Status |-> OrBool(w, "cftMixerStatus"),
                   pH |-> OrNum(w, "cftph", 700),
                   Turbidity |-> OrNum(w, "cftTurbidity", 0),
                   Dosing_Rate |-> OrNum(w, "cftDosingRate", 0)]),
      SCT |-> Arr(<<sct, sct>>),
      FTR |-> Obj([Differential_Pressure |-> OrNum(w, "ftrDifferentialPressure", 0),
                   Flow_Rate |-> OrNum(w, "ftrFlowRate", 0),
                   Backwash_Status |-> OrBool(w, "ftrBackwashStatus")]),
      CWT |-> Arr(<<cwt, cwt>>),
      SLT |-> Obj([Level |-> OrNum(w, "sltLevel", 0),
                   Pump_Status |-> OrBool(w, "sltPumpStatus")]),
      PPS |-> Obj([Status |-> OrBool(w, "ppsPumpStatus"),
                   Mode |-> OrStr(w, "ppsMode", "AUTO"),
                   Flow_Rate |-> OrNum(w, "ppsFlowRate", 0),
                   Outlet_Pressure |-> OrNum(w, "ppsOutletPressure", 0),
                   Fault |-> OrBool(w, "ppsFault")]),
      PLT |-> Obj([Total_Inflow |-> OrNum(w, "pltTotalInflow", 0),
                   Total_Outflow |-> OrNum(w, "pltTotalOutflow", 0),
                   System_Mode |-> OrStr(w, "pltSystemMode", "AUTO"),
                   Alarm_Status |-> OrBool(w, "pltAlarmStatus")]) ]

(***************************************************************************)
(* The payload of one simulation interval (simulationMode is 'random' and  *)
(* nothing changes it).  r and s are draws of Math.random() in hundredths, *)
(* r for the first and s for the second draw of each subsystem.            *)
(***************************************************************************)
simData(r, s) ==
    [ RWT |-> Obj([Level |-> 5000 + r * 40, pH |-> 650 + (s * 3) \div 2,
                   Turbidity |-> 3000 + r * 40,
                   Inflow_Rate |-> 10000 + s * 50]),
      CFT |-> Obj([Level |-> 4000 + r * 40, Mixer_Status |-> TRUE,
                   pH |-> 600 + (s * 3) \div 2, Turbidity |-> 1500 + r * 20]),
      CST |-> Obj([Level |-> 7000 + r * 25]),
      SCT |-> Arr(<<[Level |-> 6000 + r * 40, Sludge_Level |-> 1000 + s * 20,
                     Scraper_Status |-> TRUE],
                    [Level |-> 5500 + s * 45, Sludge_Level |-> 800 + r * 22,
                     Scraper_Status |-> TRUE]>>),
      CWT |-> Arr(<<[Level |-> 7000 + r * 30, pH |-> 680 + (s * 6) \div 10,
                     Residual_Chlorine |-> 50 + (r * 8) \div 10],
                    [Level |-> 7500 + s * 25, pH |-> 690 + r \div 2,
                     Residual_Chlorine |-> 60 + (s * 7) \div 10]>>),
      FTR |-> Obj([Flow_Rate |-> 8000 + r * 40,
                   Differential_Pressure |-> 50 + s]),
      PPS |-> Obj([Status |-> (r > 30), Flow_Rate |-> 9000 + s * 40]),
      CDP |-> Obj([Status |-> TRUE, Dosing_Rate |-> 300 + r * 5]),
      SLT |-> Obj([Level |-> 2000 + r * 40]) ]

(***************************************************************************)
(* updatePlantData's merge: plantData = { ...plantData, ...payload }       *)
(***************************************************************************)
\* Merges the program does not perform, kept to show that the merge
\* properties tell them apart from the spread: the payload taken as the
\* whole snapshot; a deep merge of object subsystems; array subsystems
\* accumulated instead of replaced.
ReplaceSnapshot(pd, payload) == payload

DeepMerge(pd, payload) ==
    [k \in DOMAIN pd \cup DOMAIN payload |->
        IF k \notin DOMAIN payload THEN pd[k]
        ELSE IF k \in DOMAIN pd /\ ~pd[k].isArray /\ ~payload[k].isArray
                /\ Len(pd[k].elems) = 1 /\ Len(payload[k].elems) = 1
             THEN Obj([f \in DOMAIN pd[k].elems[1] \cup DOMAIN payload[k].elems[1] |->
                         IF f \in DOMAIN payload[k].elems[1]
                         THEN payload[k].elems[1][f] ELSE pd[k].elems[1][f]])
             ELSE payload[k]]

AppendMerge(pd, payload) ==
    [k \in DOMAIN pd \cup DOMAIN payload |->
        IF k \notin DOMAIN payload THEN pd[k]
        ELSE IF k \in DOMAIN pd /\ pd[k].isArray /\ payload[k].isArray
             THEN Arr(pd[k].elems \o payload[k].elems)
             ELSE payload[k]]

SpreadMerge(pd, payload) ==
    [k \in DOMAIN pd \cup DOMAIN payload |->
        IF k \in DOMAIN payload THEN payload[k] ELSE pd[k]]

(***************************************************************************)
(* Display strings.  A string written to a sink is pre, then (when         *)
(* digits >= 0) the number num with that many decimals, then str.          *)
(***************************************************************************)
Txt(t) == [pre |-> "", num |-> 0, digits |-> 0 - 1, str |-> t]

\* v.toFixed(d) for v in hundredths: the count of 10^-d units.
toFixed(v, d) ==
    IF d = 0 THEN RoundDiv(v, 100) ELSE IF d = 1 THEN RoundDiv(v, 10) ELSE v

\* r?.f?.toFixed(d) + suffix: an undefined operand yields 'undefined' + suffix
FixedPlus(r, f, d, suffix) ==
    IF Has(r, f)
    THEN [pre |-> "", num |-> toFixed(r[1][f], d), digits |-> d, str |-> suffix]
    ELSE Txt("undefined" \o suffix)

\* r?.f?.toFixed(d): undefined is the empty (falsy) text
FixedOnly(r, f, d) ==
    IF Has(r, f)
    THEN [pre |-> "", num |-> toFixed(r[1][f], d), digits |-> d, str |-> ""]
    ELSE Txt("")

\* r?.f, a string property
StrOf(r, f) == IF Has(r, f) THEN Txt(r[1][f]) ELSE Txt("")

\* updateElement(id, value, statusClass): el.textContent = value || '--'
updateElement(value, statusClass) ==
    [text |-> IF value = Txt("") THEN Txt("--") ELSE value,
     cls  |-> "value " \o statusClass]

Flag(r, f, yes, no, clsYes, clsNo) ==
    updateElement(Txt(IF Truthy(r, f) THEN yes ELSE no),
                  IF Truthy(r, f) THEN clsYes ELSE clsNo)

DashboardIds ==
    { "rwt-level", "rwt-high-alarm", "rwt-low-alarm", "rwt-ph",
      "rwt-turbidity", "rwt-inflow", "rwt-outflow",
      "cst-level", "cst-low-alarm",
      "cft-level", "cft-mixer", "cft-ph", "cft-turbidity", "cft-dosing",
      "sct-level", "sct-sludge", "sct-turbidity", "sct-scraper",
      "ftr-flow", "ftr-pressure", "ftr-backwash",
      "cwt-level", "cwt-high-alarm", "cwt-low-alarm", "cwt-ph",
      "cwt-turbidity", "cwt-chlorine",
      "slt-level", "slt-pump",
      "cdp-status-val", "cdp-mode", "cdp-rate", "cdp-total", "cdp-pressure",
      "cdp-fault",
      "pps-pump1", "pps-mode", "pps-flow", "pps-pressure", "pps-fault",
      "plt-inflow", "plt-outflow", "plt-mode", "plt-alarm" }

\* updateDashboard: what each element shows for the snapshot pd.
updateDashboard(pd) ==
    LET RWT == ObjOf(pd, "RWT")
        CST == ObjOf(pd, "CST")
        CFT == ObjOf(pd, "CFT")
        sctData == FirstOf(pd, "SCT")
        FTR == ObjOf(pd, "FTR")
        cwtData == FirstOf(pd, "CWT")
        SLT == ObjOf(pd, "SLT")
        CDP == ObjOf(pd, "CDP")
        PPS == ObjOf(pd, "PPS")
        PLT == ObjOf(pd, "PLT")
        cell(id) ==
          CASE id = "rwt-level" -> updateElement(FixedPlus(RWT, "Level", 1, "%"), "")
            [] id = "rwt-high-alarm" -> Flag(RWT, "High_Level_Alarm", "YES", "NO", "alarm", "ok")
            [] id = "rwt-low-alarm" -> Flag(RWT, "Low_Level_Alarm", "YES", "NO", "alarm", "ok")
            [] id = "rwt-ph" -> updateElement(FixedOnly(RWT, "pH", 1), "")
            [] id = "rwt-turbidity" -> updateElement(FixedPlus(RWT, "Turbidity", 1, " NTU"), "")
            [] id = "rwt-inflow" -> updateElement(FixedPlus(RWT, "Inflow_Rate", 1, " m3/h"), "")
            [] id = "rwt-outflow" -> updateElement(FixedPlus(RWT, "Outflow_Rate", 1, " m3/h"), "")
            [] id = "cst-level" -> updateElement(FixedPlus(CST, "Level", 1, "%"), "")
            [] id = "cst-low-alarm" -> Flag(CST, "Low_Level_Alarm", "YES", "NO", "alarm", "ok")
            [] id = "cft-level" -> updateElement(FixedPlus(CFT, "Level", 1, "%"), "")
            [] id = "cft-mixer" -> Flag(CFT, "Mixer_Status", "ON", "OFF", "ok", "")
            [] id = "cft-ph" -> updateElement(FixedOnly(CFT, "pH", 1), "")
            [] id = "cft-turbidity" -> updateElement(FixedPlus(CFT, "Turbidity", 1, " NTU"), "")
            [] id = "cft-dosing" -> updateElement(FixedPlus(CFT, "Dosing_Rate", 1, " L/h"), "")
            [] id = "sct-level" -> updateElement(FixedPlus(sctData, "Level", 1, "%"), "")
            [] id = "sct-sludge" -> updateElement(FixedPlus(sctData, "Sludge_Level", 1, "%"), "")
            [] id = "sct-turbidity" -> updateElement(FixedPlus(sctData, "Turbidity_Outlet", 1, " NTU"), "")
            [] id = "sct-scraper" -> Flag(sctData, "Scraper_Status", "ON", "OFF", "ok", "")
            [] id = "ftr-flow" -> updateElement(FixedPlus(FTR, "Flow_Rate", 1, " m3/h"), "")
            [] id = "ftr-pressure" -> updateElement(FixedPlus(FTR, "Differential_Pressure", 2, " bar"), "")
            [] id = "ftr-backwash" -> Flag(FTR, "Backwash_Status", "ACTIVE", "OFF", "warning", "")
            [] id = "cwt-level" -> updateElement(FixedPlus(cwtData, "Level", 1, "%"), "")
            [] id = "cwt-high-alarm" -> Flag(cwtData, "High_Level_Alarm", "YES", "NO", "alarm", "ok")
            [] id = "cwt-low-alarm" -> Flag(cwtData, "Low_Level_Alarm", "YES", "NO", "alarm", "ok")
            [] id = "cwt-ph" -> updateElement(FixedOnly(cwtData, "pH", 1), "")
            [] id = "cwt-turbidity" -> updateElement(FixedPlus(cwtData, "Turbidity", 1, " NTU"), "")
            [] id = "cwt-chlorine" -> updateElement(FixedPlus(cwtData, "Residual_Chlorine", 2, " mg/L"), "")
            [] id = "slt-level" -> updateElement(FixedPlus(SLT, "Level", 1, "%"), "")
            [] id = "slt-pump" -> Flag(SLT, "Pump_Status", "ON", "OFF", "ok", "")
            [] id = "cdp-status-val" -> Flag(CDP, "Status", "ON", "OFF", "ok", "")
            [] id = "cdp-mode" -> updateElement(StrOf(CDP, "Mode"), "")
            [] id = "cdp-rate" -> updateElement(FixedPlus(CDP, "Dosing_Rate", 1, " L/h"), "")
            [] id = "cdp-total" -> updateElement(FixedPlus(CDP, "Total_Chemical_Used", 0, " L"), "")
            [] id = "cdp-pressure" -> updateElement(FixedPlus(CDP, "Pressure", 1, " bar"), "")
            [] id = "cdp-fault" -> Flag(CDP, "Fault", "YES", "NO", "alarm", "ok")
            [] id = "pps-pump1" -> Flag(PPS, "Status", "ON", "OFF", "ok", "")
            [] id = "pps-mode" -> updateElement(StrOf(PPS, "Mode"), "")
            [] id = "pps-flow" -> updateElement(FixedPlus(PPS, "Flow_Rate", 1, " m3/h"), "")
            [] id = "pps-pressure" -> updateElement(FixedPlus(PPS, "Outlet_Pressure", 1, " bar"), "")
            [] id = "pps-fault" -> Flag(PPS, "Fault", "YES", "NO", "alarm", "ok")
            [] id = "plt-inflow" -> updateElement(FixedPlus(PLT, "Total_Inflow", 1, " m3/h"), "")
            [] id = "plt-outflow" -> updateElement(FixedPlus(PLT, "Total_Outflow", 1, " m3/h"), "")
            [] id = "plt-mode" -> updateElement(IF StrOf(PLT, "System_Mode") = Txt("") THEN Txt("AUTO")
                                                ELSE StrOf(PLT, "System_Mode"), "")
            [] id = "plt-alarm" -> Flag(PLT, "Alarm_Status", "YES", "NO", "alarm", "ok")
    IN [id \in DashboardIds |-> cell(id)]

(***************************************************************************)
(* The scene index.  comps.tanks[key] is the number of tank bodies mapped  *)
(* under key, comps.water[key] the sequence of the water meshes mapped     *)
(* under key, each given by its scale.y at load time, comps.pumps the set  *)
(* of pumps found.                                                         *)
(***************************************************************************)
\* createLabel's element id for body index i of the tanks mapped under key
\* (createLabels: an index only when the key has several bodies).
LabelId(comps, key, dataKey, i) ==
    IF comps.tanks[key] > 1 THEN "label-" \o dataKey \o "-" \o ToString(i)
    ELSE "label-" \o dataKey

\* The ids of the label elements createLabels made.
LabelIds(comps) ==
    UNION { {LabelId(comps, kd[1], kd[2], i) : i \in 0 .. comps.tanks[kd[1]] - 1} :
            kd \in { <<"RWT", "rwt">>, <<"CST", "cst">>, <<"CFT", "cft">>,
                     <<"SCT", "sct">>, <<"CWT", "cwt">>, <<"SLT", "slt">> } }
    \cup { "label-" \o pk[2] : pk \in { q \in {<<"CDP", "cdp">>, <<"PPS", "pps">>} :
                                         q[1] \in comps.pumps } }

\* `Level: ${level?.toFixed(1) || '--'}%`
LevelLabel(r) ==
    IF Has(r, "Level")
    THEN [pre |-> "Level: ", num |-> toFixed(r[1]["Level"], 1), digits |-> 1, str |-> "%"]
    ELSE Txt("Level: --%")

\* updateLabels: the text of every label element after the call, old being
\* the texts before it (an element the call does not write keeps its text).
updateLabels(pd, comps, old) ==
    LET elemOf(k, i) ==
            IF IsArray(pd, k) /\ i + 1 \in DOMAIN pd[k].elems
            THEN <<pd[k].elems[i + 1]>> ELSE <<>>
        arrayIds(k, dataKey) ==
            IF IsArray(pd, k)
            THEN {"label-" \o dataKey \o "-" \o ToString(i) :
                     i \in 0 .. Len(pd[k].elems) - 1}
            ELSE {}
        idx(id, k, dataKey) ==
            CHOOSE i \in 0 .. Len(pd[k].elems) - 1 :
                id = "label-" \o dataKey \o "-" \o ToString(i)
        text(id) ==
          CASE id = "label-rwt" -> LevelLabel(ObjOf(pd, "RWT"))
            [] id = "label-cst" -> LevelLabel(ObjOf(pd, "CST"))
            [] id = "label-cft" -> LevelLabel(ObjOf(pd, "CFT"))
            [] id = "label-slt" -> LevelLabel(ObjOf(pd, "SLT"))
            [] id \in arrayIds("SCT", "sct") ->
                   LevelLabel(elemOf("SCT", idx(id, "SCT", "sct")))
            [] id \in arrayIds("CWT", "cwt") ->
                   LevelLabel(elemOf("CWT", idx(id, "CWT", "cwt")))
            [] id = "label-cdp" ->
                   Txt(IF Truthy(ObjOf(pd, "CDP"), "Status") THEN "Status: ON" ELSE "Status: OFF")
            [] id = "label-pps" ->
                   Txt(IF Truthy(ObjOf(pd, "PPS"), "Status") THEN "Status: ON" ELSE "Status: OFF")
            [] OTHER -> old[id]
    IN [id \in LabelIds(comps) |-> text(id)]

(***************************************************************************)
(* Fill-state engine (updateTankLevels).                                   *)
(***************************************************************************)
\* CONFIG.tank.minScale = 0.01, CONFIG.tank.maxScale = 1.0
minScale == RoundDiv(Unit, 100)

maxScale == Unit

\* The clamp of animate: Math.min(clock.getDelta(), 0.1), in milliseconds.
MaxDeltaMs == 100

\* Not-a-number, as an integer no computation on fractions produces.
NaN == 0 - (Unit * Unit)

\* A smoothing rate ten times the program's (not the program's; the
\* no-overshoot property must tell it apart).
LerpFactorFast(delta) == 20 * delta

\* const lerpFactor = 2 * delta, in thousandths (delta in milliseconds).
LerpFactor(delta) == 2 * delta

\* THREE.MathUtils.lerp(x, y, t) = (1 - t) * x + t * y, t in thousandths.
lerp(x, y, t) ==
    IF x = NaN \/ y = NaN THEN NaN
    ELSE RoundDiv((1000 - t) * x + t * y, 1000)

\* A level scale that reaches half the range (not the program's; the
\* convergence property must tell it apart).
LevelScaleHalf(level) ==
    IF level = NaN THEN NaN ELSE RoundDiv(level * maxScale, 20000)

\* CONFIG.tank.minScale + (level / 100) * (maxScale - minScale)
LevelScale(level) ==
    IF level = NaN THEN NaN
    ELSE RoundDiv(minScale * 10000 + level * (maxScale - minScale), 10000)

\* waterMesh.userData.originalScaleY || 1.0 for mesh i (from 0) of water:
\* createWaterMeshes records the mesh's scale.y only for a key with a body.
OriginalScaleY(comps, key, i) ==
    LET o == comps.water[key \o "_Water"][i + 1]
    IN IF comps.tanks[key] > 0 /\ o # 0 THEN o ELSE Unit

\* originalScaleY * levelScale
TargetScale(comps, key, i, level) ==
    IF level = NaN THEN NaN
    ELSE RoundDiv(OriginalScaleY(comps, key, i) * LevelScale(level), Unit)

\* One animation entry shared by all the instances (not the program's).
AnimKeyShared(water, index) == water \o "_0"

\* const animKey = `${water}_${index}`
AnimKey(water, index) == water \o "_" \o ToString(index)

\* animationTargets.levels[animKey] after its lazy initialisation to init.
Cur(lv, animKey, init) == IF animKey \in DOMAIN lv THEN lv[animKey] ELSE init

\* The `data` of a tankMappings row, as a sequence: empty when undefined.
\* RWT, CST, CFT, SLT: plantData.K?.Level.  SCT, CWT: plantData.K itself,
\* which the single-value branch divides by 100: null gives 0, an object NaN.
DataOf(pd, key) ==
    IF key \in {"SCT", "CWT"}
    THEN IF key \notin DOMAIN pd THEN <<>>
         ELSE IF pd[key] = Null THEN <<0>> ELSE <<NaN>>
    ELSE IF Has(ObjOf(pd, key), "Level")
         THEN <<ObjOf(pd, key)[1]["Level"]>> ELSE <<>>

\* The array branch (SCT, CWT with an array payload): the entries written,
\* as pairs <<animKey, value>>.
ArrayBranch(pd, comps, lv, key, lf) ==
    LET water == key \o "_Water"
        meshes == comps.water[water]
        data == pd[key].elems
    IN { <<AnimKey(water, i),
           lerp(Cur(lv, AnimKey(water, i), meshes[i + 1]),
                TargetScale(comps, key, i, data[i + 1]["Level"]), lf)>> :
         i \in { j \in 0 .. Len(data) - 1 :
                   j + 1 \in DOMAIN meshes /\ "Level" \in DOMAIN data[j + 1] } }

\* The single-value branch of CFT, RWT, SCT, CWT: every water mesh of the
\* key moves toward the one level.
SingleBranch(pd, comps, lv, key, lf) ==
    LET water == key \o "_Water"
        meshes == comps.water[water]
        data == DataOf(pd, key)
    IN IF Len(meshes) > 0 /\ Len(data) = 1
       THEN { <<AnimKey(water, i),
                lerp(Cur(lv, AnimKey(water, i), meshes[i + 1]),
                     TargetScale(comps, key, i, data[1]), lf)>> :
              i \in 0 .. Len(meshes) - 1 }
       ELSE {}

\* The remaining branch (CST): generated water meshes, no originalScaleY.
NormalBranch(pd, comps, lv, key, lf) ==
    LET water == key \o "_Water"
        meshes == comps.water[water]
        data == DataOf(pd, key)
        animKey(i) == IF Len(meshes) > 1 THEN AnimKey(water, i) ELSE water
    IN IF Len(meshes) > 0 /\ Len(data) = 1
       THEN { <<animKey(i),
                lerp(Cur(lv, animKey(i), meshes[i + 1]), LevelScale(data[1]), lf)>> :
              i \in 0 .. Len(meshes) - 1 }
       ELSE {}

\* coneFillPercent = levelPercent / conePercent (conePercent = 25)
ConeFillPercent(level) == RoundDiv(level * Unit, 2500)

\* The cylinder filled in proportion to the whole level (not the program's).
CylinderFillWhole(level) == RoundDiv(level * Unit, 10000)

\* cylinderFillPercent = (levelPercent - conePercent) / cylinderPercent
CylinderFillPercent(level) == RoundDiv((level - 2500) * Unit, 7500)

\* Thresholds at one half (not the program's; the sequencing properties
\* must tell them apart).
BelowHalf(x) == 2 * x < Unit

AboveHalf(x) == 2 * x > Unit

\* cylinderFillLevel < 0.01, cone < 0.99, coneFillLevel > 0.99
Below001(x) == 100 * x < Unit

Below099(x) == 100 * x < 99 * Unit

Above099(x) == 100 * x > 99 * Unit

\* The SLT branch: the pair <<cone, cylinder>> after one tick at level.
SltStep(cone, cyl, level, lf) ==
    IF level <= 2500
    THEN LET cylinderFillLevel == lerp(cyl, 0, lf * 2)
             newCone ==
                 IF Below001(cylinderFillLevel)
                 THEN lerp(cone, ConeFillPercent(level), lf)
                 ELSE IF Below099(cone) THEN lerp(cone, Unit, lf) ELSE Unit
         IN <<newCone, cylinderFillLevel>>
    ELSE LET coneFillLevel == lerp(cone, Unit, lf)
             newCyl ==
                 IF Above099(coneFillLevel)
                 THEN lerp(cyl, CylinderFillPercent(level), lf)
                 ELSE 0
         IN <<coneFillLevel, newCyl>>

\* The SLT branch of updateTankLevels; both meshes exist when SLT has a body.
SltBranch(pd, comps, lv, lf) ==
    LET data == DataOf(pd, "SLT")
    IN IF comps.tanks["SLT"] > 0 /\ Len(data) = 1
       THEN LET r == SltStep(Cur(lv, "SLT_Water_Cone", 0),
                             Cur(lv, "SLT_Water_Cylinder", 0), data[1], lf)
            IN { <<"SLT_Water_Cone", r[1]>>, <<"SLT_Water_Cylinder", r[2]>> }
       ELSE {}

\* The entries one row of tankMappings writes.
TankRow(pd, comps, lv, key, lf) ==
    IF key \in {"SCT", "CWT"} /\ IsArray(pd, key)
    THEN IF Len(comps.water[key \o "_Water"]) > 0
         THEN ArrayBranch(pd, comps, lv, key, lf) ELSE {}
    ELSE IF key = "SLT" THEN SltBranch(pd, comps, lv, lf)
    ELSE IF key \in {"CFT", "RWT", "SCT", "CWT"}
         THEN SingleBranch(pd, comps, lv, key, lf)
    ELSE NormalBranch(pd, comps, lv, key, lf)

TankKeys == {"RWT", "CST", "CFT", "SCT", "CWT", "SLT"}

\* updateTankLevels(delta): animationTargets.levels after the call.  The
\* rows write disjoint keys, so their order does not matter.
updateTankLevels(pd, comps, lv, delta) ==
    LET written == UNION { TankRow(pd, comps, lv, key, LerpFactor(delta)) :
                           key \in TankKeys }
        keys == { w[1] : w \in written }
    IN [k \in DOMAIN lv \cup keys |->
          IF k \in keys THEN (CHOOSE w \in written : w[1] = k)[2] ELSE lv[k]]

(***************************************************************************)
(* Frame effects: mixers, pumps and alarms.  Angles are in milliradians,   *)
(* positions and emissive intensities in thousandths, the clock reading in *)
(* milliseconds, so that time * 5 is an angle in milliradians.             *)
(***************************************************************************)
\* Math.sin of an angle in milliradians, in thousandths (Bhaskara's
\* rational approximation of the half wave, exact at 0, pi/6, pi/2, pi).
Sin(mrad) ==
    LET pi == 3142
        x == mrad % (2 * pi)
        h == IF x < pi THEN x ELSE x - pi
        p == RoundDiv(h * (pi - h), 100)
        s == RoundDiv(16000 * p, RoundDiv(5 * pi * pi, 100) - 4 * p)
    IN IF x < pi THEN s ELSE 0 - s

\* A pump node as the model file gives it: at rest, its material untouched.
PumpNode(rest) ==
    [y |-> rest, originalY |-> <<>>, color |-> "none", intensity |-> 1000,
     rest |-> rest]

\* setPumpColor with the priority On > Fault (not the program's).
setPumpColorOnFirst(isOn, hasFault, time) ==
    IF isOn
    THEN [color |-> "pumpOn", intensity |-> 300 + RoundDiv(Sin(time * 5) * 100, 1000)]
    ELSE IF hasFault
    THEN [color |-> "alarm", intensity |-> IF Sin(time * 5) > 0 THEN 800 ELSE 200]
    ELSE [color |-> "pumpOff", intensity |-> 500]

\* setPumpColor(pump, isOn, hasFault, time): the emissive colour and
\* intensity given to the pump's materials, priority Fault > On > Off.
setPumpColor(isOn, hasFault, time) ==
    IF hasFault
    THEN [color |-> "alarm", intensity |-> IF Sin(time * 5) > 0 THEN 800 ELSE 200]
    ELSE IF isOn
    THEN [color |-> "pumpOn", intensity |-> 300 + RoundDiv(Sin(time * 5) * 100, 1000)]
    ELSE [color |-> "pumpOff", intensity |-> 500]

\* !pump.userData.originalY: true when it is undefined, and when it is 0.
NoOriginalY(p) == p.originalY = <<>> \/ p.originalY = <<0>>

\* The body of updatePumps for one pump node p whose subsystem is key.
PumpStep(pd, key, p, time) ==
    LET isOn == Truthy(ObjOf(pd, key), "Status")
        hasFault == Truthy(ObjOf(pd, key), "Fault")
        lit == setPumpColor(isOn, hasFault, time)
        orig == IF NoOriginalY(p) THEN <<p.y>> ELSE p.originalY
    IN IF isOn /\ ~hasFault
       THEN [p EXCEPT !.color = lit.color, !.intensity = lit.intensity,
                      !.originalY = orig,
                      !.y = orig[1] + RoundDiv(Sin(time * 30) * 20, 1000)]
       ELSE [p EXCEPT !.color = lit.color, !.intensity = lit.intensity,
                      !.y = IF p.originalY # <<>> THEN p.originalY[1] ELSE p.y]

\* updatePumps(delta): components.pumps.CDP and components.pumps.PPS, each
\* when the scene has it.
updatePumps(pd, pumps, time) ==
    [key \in DOMAIN pumps |-> PumpStep(pd, key, pumps[key], time)]

\* A pipe of the loaded model: its material has a texture map or not, the
\* map is not scrolled and the emissive is the material's own.
PipeNode(hasMap) ==
    [hasMap |-> hasMap, offset |-> 0, color |-> "none", intensity |-> 1000,
     cloned |-> FALSE]

\* plantData.PPS?.Flow_Rate || 0
FlowRate(pd) ==
    IF Has(ObjOf(pd, "PPS"), "Flow_Rate") THEN ObjOf(pd, "PPS")[1]["Flow_Rate"]
    ELSE 0

\* The body of the forEach of updatePipeFlows: with a positive flow rate the
\* material is cloned once, its map scrolls by delta * flowRate * 0.01 and
\* the emissive is the clean-water colour at 0.1 + 0.05 sin(3t); with no
\* flow the pipe is not touched.
PipeStep(pd, p, delta, time) ==
    IF FlowRate(pd) > 0
    THEN [p EXCEPT !.cloned = TRUE, !.color = "cleanWater",
                   !.offset = IF p.hasMap
                              THEN p.offset + RoundDiv(delta * FlowRate(pd), 10000)
                              ELSE p.offset,
                   !.intensity = 100 + RoundDiv(Sin(time * 3) * 50, 1000)]
    ELSE p

\* updatePipeFlows(delta): every pipe the scene has.
updatePipeFlows(pd, pipes, delta, time) ==
    [k \in DOMAIN pipes |-> PipeStep(pd, pipes[k], delta, time)]

\* The mixer step that turns both nodes without testing that the scene has
\* them (not the program's).
updateMixersUnguarded(pd, mixers, delta) ==
    [m \in {"CFT_Mixer", "SCT_Scraper"} |->
       (IF m \in DOMAIN mixers THEN mixers[m] ELSE 0) + delta * 2]

\* updateMixers(delta): the rotation of each mixer node the scene has.
updateMixers(pd, mixers, delta) ==
    [m \in DOMAIN mixers |->
       IF m = "CFT_Mixer" /\ Truthy(ObjOf(pd, "CFT"), "Mixer_Status")
       THEN mixers[m] + delta * 2
       ELSE IF m = "SCT_Scraper" /\ Truthy(ObjOf(pd, "SCT"), "Scraper_Status")
       THEN mixers[m] + RoundDiv(delta, 2)
       ELSE mixers[m]]

\* pulseComponent(component, pulse) on every body of a tank: TRUE is the
\* alarm colour at intensity 0.5, FALSE the cleared emissive.
AllBodies(glow, key, pulse) == [i \in DOMAIN glow[key] |-> pulse]

\* The High/Low choice with the low alarm tested first (not the program's).
AlarmOfLowFirst(r, alarmPulse) ==
    IF Truthy(r, "Low_Level_Alarm") THEN <<"Low Level", alarmPulse>>
    ELSE IF Truthy(r, "High_Level_Alarm") THEN <<"High Level", TRUE>>
    ELSE <<"", FALSE>>

\* The High/Low choice of updateAlarmEffects for one reading r (a sequence
\* holding the object, or empty): <<alarm text suffix, pulse>>.
AlarmOf(r, alarmPulse) ==
    IF Truthy(r, "High_Level_Alarm") THEN <<"High Level", TRUE>>
    ELSE IF Truthy(r, "Low_Level_Alarm") THEN <<"Low Level", alarmPulse>>
    ELSE <<"", FALSE>>

\* CST has no high alarm.
LowAlarmOf(r, alarmPulse) ==
    IF Truthy(r, "Low_Level_Alarm") THEN <<"Low Level", alarmPulse>>
    ELSE <<"", FALSE>>

\* if (plantData.K): K is present and not null (an array is truthy, and
\* has no alarm properties).
Present(pd, k) == k \in DOMAIN pd /\ pd[k] # Null

\* The entries one CWT reading adds: none when the scene lacks the body.
CwtAlarm(pd, glow, i, alarmPulse) ==
    IF i \in DOMAIN glow["CWT"]
    THEN AlarmOf(<<pd["CWT"].elems[i]>>, alarmPulse)
    ELSE <<"", FALSE>>

RECURSIVE CwtEntries(_, _, _, _)
CwtEntries(pd, glow, i, alarmPulse) ==
    IF i > Len(pd["CWT"].elems) THEN <<>>
    ELSE (IF CwtAlarm(pd, glow, i, alarmPulse)[1] = "" THEN <<>>
          ELSE << "CWT " \o ToString(i) \o " "
                  \o CwtAlarm(pd, glow, i, alarmPulse)[1] >>)
         \o CwtEntries(pd, glow, i + 1, alarmPulse)

\* let activeAlarms after updateAlarmEffects.
ActiveAlarms(pd, glow, alarmPulse) ==
    (IF Present(pd, "RWT") /\ AlarmOf(ObjOf(pd, "RWT"), alarmPulse)[1] # ""
     THEN <<"RWT " \o AlarmOf(ObjOf(pd, "RWT"), alarmPulse)[1]>> ELSE <<>>)
    \o (IF Present(pd, "CST") /\ Truthy(ObjOf(pd, "CST"), "Low_Level_Alarm")
        THEN <<"CST Low Level">> ELSE <<>>)
    \o (IF IsArray(pd, "CWT") THEN CwtEntries(pd, glow, 1, alarmPulse) ELSE <<>>)
    \o (IF Truthy(ObjOf(pd, "CDP"), "Fault") THEN <<"CDP Fault">> ELSE <<>>)
    \o (IF Truthy(ObjOf(pd, "PPS"), "Fault") THEN <<"PPS Fault">> ELSE <<>>)

\* The emissive overlay of every tank body after updateAlarmEffects.
Glow(pd, glow, alarmPulse) ==
    [key \in DOMAIN glow |->
       IF key = "RWT"
       THEN (IF Present(pd, "RWT")
             THEN AllBodies(glow, key, AlarmOf(ObjOf(pd, "RWT"), alarmPulse)[2])
             ELSE glow[key])
       ELSE IF key = "CST"
       THEN (IF Present(pd, "CST")
             THEN AllBodies(glow, key, LowAlarmOf(ObjOf(pd, "CST"), alarmPulse)[2])
             ELSE glow[key])
       ELSE IF key \in {"CFT", "SLT"} THEN AllBodies(glow, key, FALSE)
       ELSE IF key = "SCT"
       THEN [i \in DOMAIN glow[key] |->
               IF IsArray(pd, "SCT") /\ i <= Len(pd["SCT"].elems)
               THEN FALSE ELSE glow[key][i]]
       ELSE [i \in DOMAIN glow[key] |->
               IF IsArray(pd, "CWT") /\ i <= Len(pd["CWT"].elems)
               THEN CwtAlarm(pd, glow, i, alarmPulse)[2] ELSE glow[key][i]]]

\* updateAlarmPanel: the panel is shown and its list rewritten when there
\* are alarms; when there are none the panel is hidden and the list kept.
updateAlarmPanel(alarms, panel) ==
    IF Len(alarms) > 0 THEN [active |-> TRUE, list |-> alarms]
    ELSE [active |-> FALSE, list |-> panel.list]

\* updateAlarmEffects(delta)
updateAlarmEffects(pd, glow, panel, time) ==
    LET alarmPulse == Sin(time * 5) > 0
        alarms == ActiveAlarms(pd, glow, alarmPulse)
    IN [activeAlarms |-> alarms,
        glow |-> Glow(pd, glow, alarmPulse),
        alarmPanel |-> updateAlarmPanel(alarms, panel)]

\* api-config.js before startPolling, the token accepted by
\* ensureAuthenticated: no timer, no request in flight.  timer is
\* pollingIntervalId (TRUE while it holds a handle), timers counts the live
\* timers registered by startPolling.  inFlight holds the numbers of the
\* requests awaiting their response, issued counts the requests made,
\* applied lists (history) the numbers of the requests whose payload was
\* applied, in the order of application, failedSinceStart counts (history)
\* the failed fetches since startPolling last took effect.
Idle ==
    [isPolling |-> FALSE, timer |-> FALSE, timers |-> 0, consecutiveErrors |-> 0,
     connectionStatus |-> "disconnected", isAuthenticated |-> TRUE,
     inFlight |-> {}, issued |-> 0, applied |-> <<>>, failedSinceStart |-> 0]

(***************************************************************************)
(* Operations.  `last` records the operation of the last step, its payload,*)
(* the frame time of a frame, the snapshot and the animation state before  *)
(* the step, and whether it applied the same payload as the step before it.*)
(***************************************************************************)
Record(op, payload, elapsed) ==
    [op |-> op, payload |-> payload, elapsed |-> elapsed,
     plantData |-> plantData, levels |-> levels, mixerRotation |-> mixerRotation,
     repeat |-> (op = "updatePlantData" /\ last.op = "updatePlantData"
                 /\ last.payload = payload)]

\* updatePlantData(payload): merge, then updateDashboard and updateLabels.
updatePlantData(payload) ==
    /\ plantData' = SpreadMerge(plantData, payload)
    /\ dashboard' = updateDashboard(plantData')
    /\ labelText' = updateLabels(plantData', components, labelText)
    /\ last' = Record("updatePlantData", payload, 0)
    /\ UNCHANGED <<components, levels, frameDelta, ticks, fxVars, clockTime>>

\* A reset that replaces the snapshot and refreshes no sink (not the
\* program's; the reset property must tell it apart).
clearDataNoRefresh ==
    /\ plantData' = getDefaultPayload
    /\ last' = Record("clearData", NoProps, 0)
    /\ UNCHANGED <<dashboard, labelText, components, levels, simulationInterval, intervalTimers,
                   frameDelta, ticks, updates, fxVars, clockTime, polling>>

\* window.WTPVisualizer.clearData
clearData ==
    /\ plantData' = getDefaultPayload
    /\ dashboard' = updateDashboard(plantData')
    /\ labelText' = updateLabels(plantData', components, labelText)
    /\ last' = Record("clearData", NoProps, 0)
    /\ UNCHANGED <<components, levels, simulationInterval, intervalTimers, frameDelta, ticks,
                   updates, fxVars, clockTime, polling>>

\* The start without the test of the timer (not the program's).
startSimulationUnguarded ==
    /\ simulationInterval' = TRUE
    /\ intervalTimers' = intervalTimers + 1
    /\ last' = Record("startSimulation", NoProps, 0)
    /\ UNCHANGED <<plantData, dashboard, labelText, components, levels,
                   frameDelta, ticks, updates, fxVars, clockTime, polling>>

\* startSimulation: a call while simulationInterval holds a timer returns
\* at once; otherwise setInterval registers a timer and its handle is kept.
startSimulation ==
    /\ IF simulationInterval
       THEN UNCHANGED <<simulationInterval, intervalTimers>>
       ELSE /\ simulationInterval' = TRUE
            /\ intervalTimers' = intervalTimers + 1
    /\ last' = Record("startSimulation", NoProps, 0)
    /\ UNCHANGED <<plantData, dashboard, labelText, components, levels,
                   frameDelta, ticks, updates, fxVars, clockTime, polling>>

\* stopSimulation: clearInterval of the timer held, if any.
stopSimulation ==
    /\ IF simulationInterval
       THEN /\ simulationInterval' = FALSE
            /\ intervalTimers' = intervalTimers - 1
       ELSE UNCHANGED <<simulationInterval, intervalTimers>>
    /\ last' = Record("stopSimulation", NoProps, 0)
    /\ UNCHANGED <<plantData, dashboard, labelText, components, levels,
                   frameDelta, ticks, updates, fxVars, clockTime, polling>>

\* animate: one frame, elapsed milliseconds after the previous one, in
\* which clock.getElapsedTime() reads time.
animateAt(elapsed, time) ==
    LET delta == Min(elapsed, MaxDeltaMs)
        fx == updateAlarmEffects(plantData, tankGlow, alarmPanel, time)
    IN /\ levels' = updateTankLevels(plantData, components, levels, delta)
       /\ mixerRotation' = updateMixers(plantData, mixerRotation, delta)
       /\ pumpNodes' = updatePumps(plantData, pumpNodes, time)
       /\ pipeNodes' = updatePipeFlows(plantData, pipeNodes, delta, time)
       /\ tankGlow' = fx.glow
       /\ activeAlarms' = fx.activeAlarms
       /\ alarmPanel' = fx.alarmPanel
       /\ last' = Record("animate", NoProps, elapsed)
       /\ UNCHANGED <<plantData, dashboard, labelText, components,
                      simulationInterval, intervalTimers, frameDelta, updates, polling>>

\* Readings of the clock, in milliseconds: sin(5t) is 0, 0.71 and -1,
\* sin(30t) is 0, -1 and 0.02.
ClockReadings == {0, 157, 942}

\* A frame of a run that does not observe the clock: it reads the clock
\* where it stands.
animate(elapsed) ==
    /\ animateAt(elapsed, clockTime)
    /\ UNCHANGED clockTime

(***************************************************************************)
(* Inputs.                                                                 *)
(***************************************************************************)
\* Scenes: what mapComponent found in the loaded model.
NoTanks == [RWT |-> 0, CST |-> 0, CFT |-> 0, SCT |-> 0, CWT |-> 0, SLT |-> 0]

NoWater == [RWT_Water |-> <<>>, CST_Water |-> <<>>, CFT_Water |-> <<>>,
            SCT_Water |-> <<>>, CWT_Water |-> <<>>]

Scene(tanks, water, pumps) == [tanks |-> tanks, water |-> water, pumps |-> pumps]

\* No model loaded (or none of its nodes matched).
EmptyScene == Scene(NoTanks, NoWater, {})

\* The full plant: every tank once, the two-instance tanks twice.
FullScene ==
    Scene([RWT |-> 1, CST |-> 0, CFT |-> 1, SCT |-> 2, CWT |-> 2, SLT |-> 1],
          [RWT_Water |-> <<Unit>>, CST_Water |-> <<>>, CFT_Water |-> <<Unit>>,
           SCT_Water |-> <<Unit, Unit>>, CWT_Water |-> <<Unit, Unit>>],
          {"CDP", "PPS"})

\* Payloads of direct callers of updatePlantData.
DirectPayloads ==
    { NoProps,
      [RWT |-> Obj([Level |-> 1000])],
      [RWT |-> Obj(NoProps)],
      [CDP |-> Obj([Status |-> TRUE, Fault |-> FALSE])],
      [SCT |-> Arr(<<[Level |-> 9000], [Level |-> 1000]>>)],
      [SLT |-> Null],
      [RWT |-> Obj([Level |-> 1000, pH |-> 700]), SLT |-> Obj([Level |-> 2000])],
      [AUX |-> Obj([Level |-> 100])] }

\* Draws of Math.random(), in hundredths.
RandomDraws == {0, 99}

\* Component records of polled responses.
ApiData ==
    { NoProps,
      [rwtLevel |-> 4200, rwtLevelHighAlarm |-> TRUE, rwtph |-> 690,
       cdpStatus |-> TRUE, cdpMode |-> "MANUAL", sctLevel |-> 3300,
       cwtLevel |-> 9100, cwtLevelLowAlarm |-> TRUE, sltLevel |-> 8000,
       ppsPumpStatus |-> TRUE, ppsFlowRate |-> 10500, ppsFault |-> TRUE,
       pltSystemMode |-> "MANUAL"],
      [rwtLevel |-> 0, rwtph |-> 0, cstLevel |-> 1500, cstLowLevelAlarm |-> TRUE,
       cftLevel |-> 6000, cftMixerStatus |-> FALSE, sltLevel |-> 1200,
       cdpFault |-> TRUE, pltAlarmStatus |-> TRUE] }

\* Frame times, in milliseconds: a steady 20 frames a second, and a stall
\* (a backgrounded tab) longer than the clamp of animate.
Elapsed == {50, 600}

(***************************************************************************)
(* Spec: the data path.  Direct callers, the simulated feed and the polled *)
(* feed apply payloads; clearData resets.                                  *)
(***************************************************************************)
InitData ==
    /\ plantData = getDefaultPayload
    /\ dashboard = [id \in DashboardIds |-> [text |-> Txt("--"), cls |-> "value "]]
    /\ labelText = [id \in LabelIds(components) |-> Txt("--")]
    /\ levels = NoProps
    /\ simulationInterval = FALSE
    /\ intervalTimers = 0
    /\ ticks = 0
    /\ updates = 0
    /\ last = [op |-> "init", payload |-> NoProps, elapsed |-> 0,
               plantData |-> plantData, levels |-> levels,
               mixerRotation |-> NoProps, repeat |-> FALSE]
    /\ tankGlow = [key \in TankKeys |-> [i \in 1..components.tanks[key] |-> FALSE]]
    /\ activeAlarms = <<>>
    /\ alarmPanel = [active |-> FALSE, list |-> <<>>]
    /\ clockTime = 0
    /\ polling = Idle

\* A scene whose pumps rest at height 1.5 and which has no mixer node and
\* no pipe.
InitCommon ==
    /\ InitData
    /\ pumpNodes = [key \in components.pumps |-> PumpNode(1500)]
    /\ pipeNodes = NoProps
    /\ mixerRotation = NoProps

Init ==
    /\ components \in {EmptyScene, FullScene}
    /\ frameDelta = 0
    /\ InitCommon

\* An external caller (Node-RED, the page) calls updatePlantData.
UpdatePlantData ==
    \E payload \in DirectPayloads :
        /\ updates < MaxUpdates
        /\ updatePlantData(payload)
        /\ updates' = updates + 1
        /\ UNCHANGED <<simulationInterval, intervalTimers, polling>>

\* The setInterval callback of startSimulation.
SimulationInterval ==
    \E r \in RandomDraws, s \in RandomDraws :
        /\ intervalTimers > 0
        /\ updates < MaxUpdates
        /\ updatePlantData(simData(r, s))
        /\ updates' = updates + 1
        /\ UNCHANGED <<simulationInterval, intervalTimers, polling>>

\* fetchAndUpdate with a successful fetch: the transformed payload is applied.
FetchAndUpdate ==
    \E w \in ApiData :
        /\ updates < MaxUpdates
        /\ updatePlantData(transformApiData(w))
        /\ updates' = updates + 1
        /\ UNCHANGED <<simulationInterval, intervalTimers, polling>>

ClearData == clearData

StartSimulation == startSimulation

StopSimulation == stopSimulation

Next ==
    \/ UpdatePlantData
    \/ SimulationInterval
    \/ FetchAndUpdate
    \/ ClearData
    \/ StartSimulation
    \/ StopSimulation

Spec == Init /\ [][Next]_vars

(***************************************************************************)
(* Properties of the data path (Spec).                                     *)
(***************************************************************************)
\* C1: updatePlantData(payload) leaves every top-level subsystem key that
\* is absent from the payload exactly as it was before the call, and the
\* snapshot's keys after the call are the old keys and the payload's keys.
C1_AbsentKeysUnchanged ==
    last.op = "updatePlantData" =>
        /\ DOMAIN plantData = DOMAIN last.plantData \cup DOMAIN last.payload
        /\ \A k \in DOMAIN last.plantData \ DOMAIN last.payload :
               plantData[k] = last.plantData[k]

\* {RWT: {Level: 10}} applied to a snapshot that earlier payloads changed.
C1_Witness ==
    /\ last.op = "updatePlantData"
    /\ last.payload = [RWT |-> Obj([Level |-> 1000])]
    /\ last.plantData # getDefaultPayload
    /\ plantData # last.plantData
    /\ \A k \in DOMAIN last.plantData \ {"RWT"} : plantData[k] = last.plantData[k]

\* C2: after updatePlantData(payload) each subsystem key present in the
\* payload holds exactly the payload's value for it, so a sub-field of the
\* previous value that the payload omits is gone.
C2_PresentKeysReplaced ==
    last.op = "updatePlantData" =>
        \A k \in DOMAIN last.payload :
            k \in DOMAIN plantData /\ plantData[k] = last.payload[k]

\* RWT had a pH before the call; the payload gave RWT a Level only.
C2_Witness ==
    /\ last.op = "updatePlantData"
    /\ last.payload = [RWT |-> Obj([Level |-> 1000])]
    /\ Has(ObjOf(last.plantData, "RWT"), "pH")
    /\ ~Has(ObjOf(plantData, "RWT"), "pH")
    /\ Has(ObjOf(plantData, "RWT"), "Level")

OddScene ==
    Scene([RWT |-> 1, CST |-> 0, CFT |-> 1, SCT |-> 2, CWT |-> 1, SLT |-> 1],
          [RWT_Water |-> <<800>>, CST_Water |-> <<>>, CFT_Water |-> <<Unit>>,
           SCT_Water |-> <<Unit>>, CWT_Water |-> <<Unit, 500, Unit>>],
          {"CDP"})

\* Level payloads: two readings; one reading; three readings, the second
\* without a Level.
FillPayloads ==
    { [SCT |-> Arr(<<[Level |-> 9000], [Level |-> 1000]>>)],
      [RWT |-> Obj([Level |-> 1000]), SLT |-> Obj([Level |-> 10000]),
       CWT |-> Arr(<<[Level |-> 0]>>)],
      [SCT |-> Arr(<<[Level |-> 2000], [pH |-> 700], [Level |-> 5000]>>),
       SLT |-> Obj([Level |-> 0]), CFT |-> Obj([Level |-> 10000])] }

InitFill ==
    /\ components \in {FullScene, OddScene}
    /\ frameDelta = 0
    /\ InitCommon

FillUpdate ==
    \E payload \in FillPayloads :
        /\ updates < MaxUpdates
        /\ updatePlantData(payload)
        /\ updates' = updates + 1
        /\ UNCHANGED <<simulationInterval, intervalTimers, polling>>

\* requestAnimationFrame(animate): the next frame, after any elapsed time.
FillAnimate ==
    \E elapsed \in Elapsed :
        /\ ticks < MaxTicks
        /\ animate(elapsed)
        /\ ticks' = ticks + 1

NextFill ==
    \/ FillUpdate
    \/ FillAnimate

SpecFill == InitFill /\ [][NextFill]_vars

(***************************************************************************)
(* Properties of the fill engine over SpecFill.                            *)
(***************************************************************************)
WaterOf(key) == components.water[key \o "_Water"]

\* The Level that drives water mesh i of key in snapshot pd, as a sequence:
\* empty when the snapshot has no reading for it.
ReadingFor(pd, key, i) ==
    IF key \in {"SCT", "CWT"}
    THEN IF IsArray(pd, key) /\ i + 1 \in DOMAIN pd[key].elems
            /\ "Level" \in DOMAIN pd[key].elems[i + 1]
         THEN <<pd[key].elems[i + 1]["Level"]>> ELSE <<>>
    ELSE IF Has(ObjOf(pd, key), "Level")
         THEN <<ObjOf(pd, key)[1]["Level"]>> ELSE <<>>

\* The value of entry k before the last step (init when not yet created).
PrevEntry(k, init) == Cur(last.levels, k, init)

\* The last step neither created nor changed entry k.
Unmoved(k) ==
    /\ k \in DOMAIN levels <=> k \in DOMAIN last.levels
    /\ k \in DOMAIN levels => levels[k] = last.levels[k]

Between(a, x, b) == (a <= x /\ x <= b) \/ (b <= x /\ x <= a)

\* min(1, 2 * dt) in thousandths, dt being the elapsed time clamped to 0.1 s.
StepFactor(elapsed) == Min(1000, 2 * Min(elapsed, 100))

\* The targets of the two stages of the compound tank in a frame that left
\* the cylinder at cylAfter and the cone at coneAfter.
SltConeTarget(level, cylAfter) ==
    IF level <= 2500 /\ 100 * cylAfter < Unit THEN ConeFillPercent(level) ELSE Unit

SltCylinderTarget(level, coneAfter) ==
    IF level > 2500 /\ 100 * coneAfter > 99 * Unit
    THEN CylinderFillPercent(level) ELSE 0

\* C3: updatePlantData is idempotent.  A payload applied a second time in a
\* row leaves the snapshot, both sinks and the animation state as the first
\* application left them, so every later frame, and the values the
\* animation converges to, are those after one application.
C3_Idempotent ==
    last.repeat =>
        /\ plantData = last.plantData
        /\ dashboard = updateDashboard(last.plantData)
        /\ labelText = updateLabels(last.plantData, components, labelText)
        /\ levels = last.levels
        /\ \A e \in Elapsed :
               updateTankLevels(plantData, components, levels, Min(e, MaxDeltaMs))
                 = updateTankLevels(last.plantData, components, last.levels,
                                    Min(e, MaxDeltaMs))

\* The two-reading payload applied twice in a row while the tanks animate.
C3_Witness ==
    /\ last.repeat
    /\ last.payload = [SCT |-> Arr(<<[Level |-> 9000], [Level |-> 1000]>>)]
    /\ ticks > 0
    /\ "SCT_Water_0" \in DOMAIN levels
    /\ plantData # getDefaultPayload

\* C6: in every frame every animation entry ends between its previous value
\* and its current target; for a standard or per-index entry the step is
\* (target - current) * min(1, 2 * dt), dt clamped to 0.1 s, to the
\* resolution of the model.
C6_NoOvershoot ==
    last.op = "animate" =>
        /\ \A key \in {"RWT", "CFT", "SCT", "CWT"} :
             \A i \in 0 .. Len(WaterOf(key)) - 1 :
               LET k == AnimKey(key \o "_Water", i)
                   r == ReadingFor(plantData, key, i)
                   prev == PrevEntry(k, WaterOf(key)[i + 1])
               IN IF Len(r) = 0 THEN Unmoved(k)
                  ELSE LET tgt == TargetScale(components, key, i, r[1])
                       IN /\ k \in DOMAIN levels
                          /\ Between(prev, levels[k], tgt)
                          /\ Abs(1000 * (levels[k] - prev)
                                   - StepFactor(last.elapsed) * (tgt - prev)) <= 500
        /\ (components.tanks["SLT"] > 0 /\ Has(ObjOf(plantData, "SLT"), "Level")) =>
             LET level == ObjOf(plantData, "SLT")[1]["Level"]
                 cone == levels["SLT_Water_Cone"]
                 cyl == levels["SLT_Water_Cylinder"]
             IN /\ Between(PrevEntry("SLT_Water_Cone", 0), cone,
                           SltConeTarget(level, cyl))
                /\ Between(PrevEntry("SLT_Water_Cylinder", 0), cyl,
                           SltCylinderTarget(level, cone))

\* A frame after a stall of 600 ms moved the raw-water entry of the mesh
\* authored at 0.8 strictly between its previous value and its target.
C6_Witness ==
    /\ last.op = "animate"
    /\ last.elapsed = 600
    /\ components = OddScene
    /\ "RWT_Water_0" \in DOMAIN last.levels
    /\ levels["RWT_Water_0"] # last.levels["RWT_Water_0"]
    /\ levels["RWT_Water_0"]
         # TargetScale(components, "RWT", 0, ObjOf(plantData, "RWT")[1]["Level"])

\* The distance of value x from orig * (0.01 + 0.99 * level / 100), in
\* millionths of a unit (level in hundredths of a percent).
DistMicro(x, orig, level) == Abs(x * 1000000 - orig * (10000 + 99 * level))

\* C10: with an array payload for SCT or CWT, reading i drives exactly the
\* entry of (tank, i): that entry moves toward the target of its own Level,
\* an index with a reading but no node, or a node but no reading, is left
\* alone, and no entry exists but those of the scene's nodes.
C10_IndexDrivesOwnEntry ==
    last.op = "animate" =>
        /\ DOMAIN levels \subseteq
             { AnimKey(key \o "_Water", i) :
                 key \in {"RWT", "CFT", "SCT", "CWT"}, i \in 0 .. 2 }
             \cup {"SLT_Water_Cone", "SLT_Water_Cylinder"}
        /\ \A key \in {"SCT", "CWT"} :
             IsArray(plantData, key) =>
               \A i \in 0 .. 3 :
                 LET k == AnimKey(key \o "_Water", i)
                     data == plantData[key].elems
                     both == /\ i < Len(data)
                             /\ "Level" \in DOMAIN data[i + 1]
                             /\ i < Len(WaterOf(key))
                 IN IF ~both THEN Unmoved(k)
                    ELSE LET prev == PrevEntry(k, WaterOf(key)[i + 1])
                             orig == OriginalScaleY(components, key, i)
                             before == DistMicro(prev, orig, data[i + 1]["Level"])
                             after == DistMicro(levels[k], orig, data[i + 1]["Level"])
                         IN /\ k \in DOMAIN levels
                            /\ after <= before \/ after <= Epsilon * 1000000
                            /\ before > (Epsilon + 1) * 1000000 => after < before

\* The payload [{Level: 90}, {Level: 10}] moved the first settling-tank
\* entry up and the second down in the same frame.
C10_Witness ==
    /\ last.op = "animate"
    /\ components = FullScene
    /\ plantData["SCT"] = Arr(<<[Level |-> 9000], [Level |-> 1000]>>)
    /\ {"SCT_Water_0", "SCT_Water_1"} \subseteq DOMAIN last.levels
    /\ levels["SCT_Water_0"] > last.levels["SCT_Water_0"]
    /\ levels["SCT_Water_1"] < last.levels["SCT_Water_1"]

(***************************************************************************)
(* SpecSLT: the compound tank alone.  Level payloads and any number of     *)
(* frames of either frame time, in any order.                              *)
(***************************************************************************)
\* A model in which only the sludge tank's body was found.
SltScene == Scene([NoTanks EXCEPT !["SLT"] = 1], NoWater, {})

\* Levels of the sludge tank, in hundredths of a percent: empty, within the
\* cone, full (the default, 35, is within the cylinder).
SltLevels == {0, 1000, 10000}

InitSlt ==
    /\ components = SltScene
    /\ frameDelta = 0
    /\ InitCommon

SltUpdate ==
    \E level \in SltLevels :
        /\ updates < MaxUpdates
        /\ updatePlantData([SLT |-> Obj([Level |-> level])])
        /\ updates' = updates + 1
        /\ UNCHANGED <<simulationInterval, intervalTimers, polling>>

SltAnimate ==
    \E elapsed \in Elapsed :
        /\ animate(elapsed)
        /\ UNCHANGED ticks

NextSlt ==
    \/ SltUpdate
    \/ SltAnimate

SpecSLT == InitSlt /\ [][NextSlt]_vars

\* The two stages after the last frame, and before it.
Cone == levels["SLT_Water_Cone"]

Cylinder == levels["SLT_Water_Cylinder"]

PrevCone == PrevEntry("SLT_Water_Cone", 0)

PrevCylinder == PrevEntry("SLT_Water_Cylinder", 0)

\* C7: in any frame where the cone fraction decreases the cylinder fraction
\* is below 0.01, and in any frame where the cylinder fraction increases the
\* cone fraction is above 0.99 (the fractions as the frame leaves them).
C7_Sequencing ==
    (last.op = "animate" /\ "SLT_Water_Cone" \in DOMAIN levels) =>
        /\ Cone < PrevCone => 100 * Cylinder < Unit
        /\ Cylinder > PrevCylinder => 100 * Cone > 99 * Unit

\* The frame in which the draining cylinder fell below 0.01 and the cone,
\* full until then, began to drain.
C7_Witness ==
    /\ last.op = "animate"
    /\ "SLT_Water_Cone" \in DOMAIN last.levels
    /\ 100 * PrevCylinder >= Unit
    /\ PrevCone = Unit
    /\ Cone < PrevCone
    /\ 100 * Cylinder < Unit

(***************************************************************************)
(* SpecSeq: the compound tank driven by the level sequence 100, 0, 100,    *)
(* each level held until the animation has settled.  `updates` counts the  *)
(* levels of the sequence applied so far.                                  *)
(***************************************************************************)
SeqLevels == <<10000, 0, 10000>>

\* No frame, of either frame time, changes an animation entry any more.
Settled ==
    \A elapsed \in Elapsed :
        updateTankLevels(plantData, components, levels, Min(elapsed, MaxDeltaMs))
          = levels

SeqApply ==
    /\ updates < Len(SeqLevels)
    /\ updates > 0 => Settled
    /\ updatePlantData([SLT |-> Obj([Level |-> SeqLevels[updates + 1]])])
    /\ updates' = updates + 1
    /\ UNCHANGED <<simulationInterval, intervalTimers, polling>>

SeqAnimate ==
    \E elapsed \in Elapsed :
        /\ animate(elapsed)
        /\ UNCHANGED ticks

NextSeq ==
    \/ SeqApply
    \/ SeqAnimate

SpecSeq == InitSlt /\ [][NextSeq]_vars

\* A frame of the driven sequence changed both stages.
BothChanged ==
    /\ last.op = "animate"
    /\ updates > 0
    /\ "SLT_Water_Cone" \in DOMAIN levels
    /\ Cone # PrevCone
    /\ Cylinder # PrevCylinder

\* C8, as stated: over the sequence 100, 0, 100 no frame changes both the
\* cone fraction and the cylinder fraction.
C8_NeverBothChange == ~BothChanged

\* C8, amended: over the sequence 100, 0, 100 a frame changes both the cone
\* fraction and the cylinder fraction only inside the threshold bands: it
\* leaves the cylinder below 0.01 or the cone above 0.99.
C8_BothChangeOnlyAtThreshold ==
    BothChanged => (100 * Cylinder < Unit \/ 100 * Cone > 99 * Unit)

\* Draining toward level 0 after level 100 had settled: the cylinder, just
\* below 0.01, and the cone both fall in one frame.
C8_Witness ==
    /\ BothChanged
    /\ updates = 2
    /\ Cone < PrevCone
    /\ Cylinder < PrevCylinder
    /\ 100 * Cylinder < Unit

(***************************************************************************)
(* FairFill, FairSLT: a level held while the render loop runs at a steady  *)
(* frame rate.  animate requests its next frame first thing, so a frame    *)
(* always follows: weak fairness of the frame.  A first new level may      *)
(* arrive at any moment, later ones once the animation has settled.        *)
(***************************************************************************)
\* A model with the raw-water tank only, its water mesh authored at scale o.
RwtScene(o) ==
    Scene([NoTanks EXCEPT !["RWT"] = 1], [NoWater EXCEPT !["RWT_Water"] = <<o>>], {})

\* Levels held, in hundredths of a percent.
HeldLevels == {0, 1000, 2500, 10000}

InitFairFill ==
    /\ components \in {RwtScene(Unit), RwtScene(800)}
    /\ frameDelta \in Elapsed
    /\ InitCommon

InitFairSlt ==
    /\ components = SltScene
    /\ frameDelta \in Elapsed
    /\ InitCommon

\* One frame, frameDelta milliseconds after the previous one.
SteadyAnimate ==
    /\ animate(frameDelta)
    /\ UNCHANGED ticks

HoldLevel(key) ==
    \E level \in HeldLevels :
        /\ updates < MaxUpdates
        /\ updates > 0 => Settled
        /\ updatePlantData([k \in {key} |-> Obj([Level |-> level])])
        /\ updates' = updates + 1
        /\ UNCHANGED <<simulationInterval, intervalTimers, polling>>

HoldRwtLevel == HoldLevel("RWT")

HoldSltLevel == HoldLevel("SLT")

NextFairFill ==
    \/ SteadyAnimate
    \/ HoldRwtLevel

NextFairSlt ==
    \/ SteadyAnimate
    \/ HoldSltLevel

FairFill == InitFairFill /\ [][NextFairFill]_vars /\ WF_vars(SteadyAnimate)

FairSLT == InitFairSlt /\ [][NextFairSlt]_vars /\ WF_vars(SteadyAnimate)

\* The raw-water entry is within Epsilon of
\* (0.01 + 0.99 * Level / 100) times the full scale of its mesh.
FillNearTarget ==
    /\ "RWT_Water_0" \in DOMAIN levels
    /\ Has(ObjOf(plantData, "RWT"), "Level")
    /\ DistMicro(levels["RWT_Water_0"], OriginalScaleY(components, "RWT", 0),
                 ObjOf(plantData, "RWT")[1]["Level"]) <= Epsilon * 1000000

\* C5: with a level L held and a steady frame rate, the fill fraction of a
\* standard tank (its entry as a fraction of the mesh's full scale) comes
\* within Epsilon of 0.01 + (L / 100) * (1.0 - 0.01) and stays there.
C5_Converges == <>[]FillNearTarget

\* Level 10 held for the mesh authored at 0.8: the entry has settled near
\* 0.8 * 0.109.
C5_Witness ==
    /\ last.op = "animate"
    /\ components = RwtScene(800)
    /\ ObjOf(plantData, "RWT")[1]["Level"] = 1000
    /\ FillNearTarget
    /\ Settled
    /\ levels["RWT_Water_0"] < 100

\* The two stages are within Epsilon of (L / 25, 0) when L <= 25 and of
\* (1, (L - 25) / 75) when L > 25.
SltNearTarget ==
    /\ "SLT_Water_Cone" \in DOMAIN levels
    /\ Has(ObjOf(plantData, "SLT"), "Level")
    /\ LET level == ObjOf(plantData, "SLT")[1]["Level"]
       IN IF level <= 2500
          THEN /\ Abs(Cone * 2500 - level * Unit) <= Epsilon * 2500
               /\ Cylinder <= Epsilon
          ELSE /\ Unit - Cone <= Epsilon
               /\ Abs(Cylinder * 7500 - (level - 2500) * Unit) <= Epsilon * 7500

PumpScene == Scene(NoTanks, NoWater, {"CDP", "PPS"})

\* Heights at which a pump node rests in the model file, in thousandths.
RestPositions == {0, 1500}

\* Every combination of Status and Fault for the dosing pump, the product
\* pump faulted while on, and a pump object without either property.
PumpPayloads ==
    { [CDP |-> Obj([Status |-> on, Fault |-> fault])] :
        on \in BOOLEAN, fault \in BOOLEAN }
    \cup { [PPS |-> Obj([Status |-> TRUE, Fault |-> TRUE])],
            [PPS |-> Obj(NoProps)] }

InitPump ==
    /\ components = PumpScene
    /\ frameDelta = 0
    /\ InitData
    /\ \E r \in RestPositions : pumpNodes = [key \in components.pumps |-> PumpNode(r)]
    /\ pipeNodes = NoProps
    /\ mixerRotation = NoProps

PumpUpdate ==
    \E payload \in PumpPayloads :
        /\ updates < MaxUpdates
        /\ updatePlantData(payload)
        /\ updates' = updates + 1
        /\ UNCHANGED <<simulationInterval, intervalTimers, polling>>

\* requestAnimationFrame(animate): the next frame, at any clock reading.
PumpAnimate ==
    \E time \in ClockReadings :
        /\ ticks < MaxTicks
        /\ animateAt(50, time)
        /\ clockTime' = time
        /\ ticks' = ticks + 1

NextPump ==
    \/ PumpUpdate
    \/ PumpAnimate

SpecPump == InitPump /\ [][NextPump]_vars

\* plantData.K?.Status and plantData.K?.Fault as updatePumps reads them.
IsOn(key) == Truthy(ObjOf(plantData, key), "Status")

HasFault(key) == Truthy(ObjOf(plantData, key), "Fault")

\* C11: after every frame, each pump's emissive mode follows the priority
\* fault > on > off: with Fault true the alarm colour at 0.8 or 0.2 by the
\* sign of sin(5t); otherwise with Status true the running colour at an
\* intensity within [0.2, 0.4], never 0.8; otherwise the stopped colour
\* at 0.5.
C11_EmissiveMode ==
    last.op = "animate" =>
      \A key \in DOMAIN pumpNodes :
        LET p == pumpNodes[key]
        IN IF HasFault(key)
           THEN /\ p.color = "alarm"
                /\ p.intensity = (IF Sin(clockTime * 5) > 0 THEN 800 ELSE 200)
           ELSE IF IsOn(key)
           THEN /\ p.color = "pumpOn"
                /\ 200 <= p.intensity /\ p.intensity <= 400
                /\ p.intensity # 800
           ELSE p.color = "pumpOff" /\ p.intensity = 500

\* The payload {CDP: {Status: true, Fault: false}} was applied, and a frame
\* at the trough of the pulse shows CDP at the low end of the band while
\* PPS, faulted and on, blinks low.
C11_Witness ==
    /\ last.op = "animate"
    /\ plantData["CDP"] = Obj([Status |-> TRUE, Fault |-> FALSE])
    /\ pumpNodes["CDP"].intensity = 200
    /\ IsOn("PPS") /\ HasFault("PPS")
    /\ pumpNodes["PPS"].intensity = 200

\* C12: after every frame in which a pump is off or faulted, its node is
\* at exactly the position it rested at before it first vibrated, whatever
\* that rest position is (0 included) and however long it vibrated before.
C12_RestoresRest ==
    last.op = "animate" =>
      \A key \in DOMAIN pumpNodes :
        ~(IsOn(key) /\ ~HasFault(key)) => pumpNodes[key].y = pumpNodes[key].rest

(***************************************************************************)
(* SpecAlarm: the alarm engine.  Payloads set alarm and fault flags,       *)
(* frames are rendered at any reading of the clock.                        *)
(***************************************************************************)
\* Scenes with the raw-water and chemical tank bodies and two, one or no
\* clear-water bodies; no water node, no pump node.
AlarmScene(cwt) ==
    Scene([RWT |-> 1, CST |-> 1, CFT |-> 0, SCT |-> 0, CWT |-> cwt, SLT |-> 0],
          NoWater, {})

AlarmPayloads ==
    { [RWT |-> Obj([Level |-> 5000, High_Level_Alarm |-> high,
                    Low_Level_Alarm |-> low])] :
        high \in BOOLEAN, low \in BOOLEAN }
    \cup { [CST |-> Obj([Level |-> 1500, Low_Level_Alarm |-> TRUE])],
            [CWT |-> Arr(<<[High_Level_Alarm |-> TRUE, Low_Level_Alarm |-> TRUE],
                           [Low_Level_Alarm |-> TRUE]>>)],
            [CWT |-> Arr(<<[Level |-> 8000], [High_Level_Alarm |-> TRUE]>>)],
            [CDP |-> Obj([Status |-> FALSE, Fault |-> TRUE]),
             PPS |-> Obj([Status |-> TRUE, Fault |-> TRUE])] }

InitAlarm ==
    /\ components \in { AlarmScene(cwt) : cwt \in 0..2 }
    /\ frameDelta = 0
    /\ InitCommon

AlarmUpdate ==
    \E payload \in AlarmPayloads :
        /\ updates < MaxUpdates
        /\ updatePlantData(payload)
        /\ updates' = updates + 1
        /\ UNCHANGED <<simulationInterval, intervalTimers, polling>>

AlarmAnimate ==
    \E time \in ClockReadings :
        /\ ticks < MaxTicks
        /\ animateAt(50, time)
        /\ clockTime' = time
        /\ ticks' = ticks + 1

NextAlarm ==
    \/ AlarmUpdate
    \/ AlarmAnimate

SpecAlarm == InitAlarm /\ [][NextAlarm]_vars

\* The overlay the alarm flags of reading r call for at the last frame.
OverlayFor(r) ==
    IF Truthy(r, "High_Level_Alarm") THEN TRUE
    ELSE IF Truthy(r, "Low_Level_Alarm") THEN Sin(clockTime * 5) > 0
    ELSE FALSE

\* C13: after every frame, a raw-water body and every clear-water body
\* with a reading shows: the solid alarm overlay when High_Level_Alarm is
\* true (also when Low_Level_Alarm is true as well), the overlay on or off
\* by the sign of sin(5t) when only Low_Level_Alarm is true, and the
\* cleared emissive when neither is.
C13_AlarmPriority ==
    last.op = "animate" =>
      /\ Present(plantData, "RWT") =>
            \A i \in DOMAIN tankGlow["RWT"] :
              tankGlow["RWT"][i] = OverlayFor(ObjOf(plantData, "RWT"))
      /\ IsArray(plantData, "CWT") =>
            \A i \in DOMAIN tankGlow["CWT"] :
              i <= Len(plantData["CWT"].elems) =>
                tankGlow["CWT"][i] = OverlayFor(<<plantData["CWT"].elems[i]>>)

\* Both alarms of the raw-water tank and of the first clear-water tank are
\* true, the second clear-water tank has only the low alarm, and a frame in
\* the dark half of the blink shows the first two solid, the third dark.
C13_Witness ==
    /\ last.op = "animate"
    /\ Sin(clockTime * 5) <= 0
    /\ Truthy(ObjOf(plantData, "RWT"), "High_Level_Alarm")
    /\ Truthy(ObjOf(plantData, "RWT"), "Low_Level_Alarm")
    /\ tankGlow["RWT"] = <<TRUE>>
    /\ IsArray(plantData, "CWT")
    /\ Truthy(<<plantData["CWT"].elems[1]>>, "Low_Level_Alarm")
    /\ Truthy(<<plantData["CWT"].elems[2]>>, "Low_Level_Alarm")
    /\ ~Truthy(<<plantData["CWT"].elems[2]>>, "High_Level_Alarm")
    /\ tankGlow["CWT"] = <<TRUE, FALSE>>

\* The alarm texts the snapshot alone calls for: reading by reading, high
\* else low.
LevelAlarmText(name, r) ==
    IF Truthy(r, "High_Level_Alarm") THEN <<name \o " High Level">>
    ELSE IF Truthy(r, "Low_Level_Alarm") THEN <<name \o " Low Level">>
    ELSE <<>>

RECURSIVE CwtTexts(_, _)
CwtTexts(readings, i) ==
    IF i > Len(readings) THEN <<>>
    ELSE LevelAlarmText("CWT " \o ToString(i), <<readings[i]>>)
         \o CwtTexts(readings, i + 1)

AlarmsOfSnapshot(pd) ==
    LevelAlarmText("RWT", ObjOf(pd, "RWT"))
    \o (IF Truthy(ObjOf(pd, "CST"), "Low_Level_Alarm")
        THEN <<"CST Low Level">> ELSE <<>>)
    \o (IF IsArray(pd, "CWT") THEN CwtTexts(pd["CWT"].elems, 1) ELSE <<>>)
    \o (IF Truthy(ObjOf(pd, "CDP"), "Fault") THEN <<"CDP Fault">> ELSE <<>>)
    \o (IF Truthy(ObjOf(pd, "PPS"), "Fault") THEN <<"PPS Fault">> ELSE <<>>)

\* C14: after every frame the active-alarm list is, in the order RWT, CST,
\* CWT 1, CWT 2, CDP, PPS, exactly the alarms active in the current
\* snapshot, whatever tank bodies the scene has and whatever the list held
\* before.
C14_ListFromSnapshot ==
    last.op = "animate" => activeAlarms = AlarmsOfSnapshot(plantData)

(***************************************************************************)
(* SpecPoll: the polled feed of api-config.js.  A request is issued by     *)
(* startPolling and by every firing of its timer; the response of any      *)
(* request in flight may arrive at any later time, or the request fail.    *)
(***************************************************************************)
\* API_CONFIG.maxRetries
maxRetries == 3

\* The fetch at the head of fetchPlantData: fetchAndUpdate up to its await.
IssueRequest(pl) ==
    [pl EXCEPT !.issued = pl.issued + 1,
               !.inFlight = pl.inFlight \cup {pl.issued + 1}]

\* stopPolling that forgets the handle without clearing the timer (not the
\* program's).
StoppedKeepsTimer(pl) ==
    IF pl.isPolling
    THEN [pl EXCEPT !.isPolling = FALSE, !.timer = FALSE,
                    !.connectionStatus = "disconnected"]
    ELSE pl

\* stopPolling as a function of the polling state: nothing when not
\* polling; otherwise the flag is lowered, the timer held is cleared and
\* the connection status is 'disconnected'.
Stopped(pl) ==
    IF pl.isPolling
    THEN [pl EXCEPT !.isPolling = FALSE, !.timer = FALSE,
                    !.timers = IF pl.timer THEN @ - 1 ELSE @,
                    !.connectionStatus = "disconnected"]
    ELSE pl

\* startPolling without the test of isPolling (not the program's).
StartedUnguarded(pl) ==
    IssueRequest([pl EXCEPT !.isPolling = TRUE, !.timer = TRUE,
                            !.timers = @ + 1, !.failedSinceStart = 0])

\* startPolling as a function of the polling state: nothing when polling;
\* otherwise the flag is raised, a first request issued and a timer
\* registered.  consecutiveErrors is left as it is.
Started(pl) ==
    IF pl.isPolling THEN pl
    ELSE IssueRequest([pl EXCEPT !.isPolling = TRUE, !.timer = TRUE,
                                 !.timers = @ + 1, !.failedSinceStart = 0])

\* clearToken that leaves the client authenticated (not the program's).
keepToken(pl) == pl

\* clearToken
clearToken(pl) == [pl EXCEPT !.isAuthenticated = FALSE]

\* What `last` keeps of the polling state before a control call.
Before(pl) ==
    [wasPolling |-> pl.isPolling, timersBefore |-> pl.timers,
     issuedBefore |-> pl.issued, statusBefore |-> pl.connectionStatus]

\* startPolling
startPolling ==
    /\ polling.isPolling \/ polling.issued < MaxRequests
    /\ polling' = Started(polling)
    /\ last' = Record("startPolling", Before(polling), 0)
    /\ UNCHANGED <<plantData, dashboard, labelText, components, levels,
                   simulationInterval, intervalTimers, frameDelta, ticks,
                   updates, fxVars, clockTime>>

\* The setInterval callback of startPolling: fetchAndUpdate up to its await.
pollingInterval ==
    /\ polling.timers > 0
    /\ polling.issued < MaxRequests
    /\ polling' = IssueRequest(polling)
    /\ last' = Record("pollingInterval", NoProps, 0)
    /\ UNCHANGED <<plantData, dashboard, labelText, components, levels,
                   simulationInterval, intervalTimers, frameDelta, ticks,
                   updates, fxVars, clockTime>>

\* stopPolling
stopPolling ==
    /\ polling' = Stopped(polling)
    /\ last' = Record("stopPolling", Before(polling), 0)
    /\ UNCHANGED <<plantData, dashboard, labelText, components, levels,
                   simulationInterval, intervalTimers, frameDelta, ticks,
                   updates, fxVars, clockTime>>

\* togglePolling: stopPolling when polling, startPolling otherwise.
togglePolling ==
    /\ polling.isPolling \/ polling.issued < MaxRequests
    /\ polling' = IF polling.isPolling THEN Stopped(polling) ELSE Started(polling)
    /\ last' = Record("togglePolling", Before(polling), 0)
    /\ UNCHANGED <<plantData, dashboard, labelText, components, levels,
                   simulationInterval, intervalTimers, frameDelta, ticks,
                   updates, fxVars, clockTime>>

\* fetchAndUpdate after its await, the fetch of request n having succeeded
\* with the component record w: fetchPlantData marks the connection and
\* resets the error count, and the transformed payload is applied.
fetchAndUpdate(n, w) ==
    /\ n \in polling.inFlight
    /\ updatePlantData(transformApiData(w))
    /\ polling' = [polling EXCEPT !.inFlight = @ \ {n}, !.consecutiveErrors = 0,
                                  !.connectionStatus = "connected",
                                  !.applied = Append(@, n)]
    /\ UNCHANGED <<simulationInterval, intervalTimers, updates>>

\* The ways a fetch fails: the network (fetch rejects with 'Failed to
\* fetch'), a status other than 401, and the status 401.
FailureKinds == {"network", "http", "unauthorized"}

\* fetchAndUpdate after its await, the fetch of request n having failed.
\* On 401 the token is cleared and polling stopped before the throw; the
\* catch of fetchPlantData counts the error, sets the connection status
\* and calls stopPolling at maxRetries errors in a row.
fetchFailed(n, kind) ==
    LET arrived == [polling EXCEPT !.inFlight = @ \ {n}]
        thrown == IF kind = "unauthorized" THEN Stopped(clearToken(arrived))
                  ELSE arrived
        counted == [thrown EXCEPT !.consecutiveErrors = @ + 1,
                                  !.failedSinceStart = @ + 1,
                                  !.connectionStatus =
                                      IF kind = "network" THEN "disconnected"
                                      ELSE "error"]
    IN /\ n \in polling.inFlight
       /\ polling' = IF counted.consecutiveErrors >= maxRetries
                     THEN Stopped(counted) ELSE counted
       /\ last' = Record("fetchFailed",
                          [kind |-> kind, wasPolling |-> polling.isPolling,
                           errorsBefore |-> polling.consecutiveErrors], 0)
       /\ UNCHANGED <<plantData, dashboard, labelText, components, levels,
                      simulationInterval, intervalTimers, frameDelta, ticks,
                      updates, fxVars, clockTime>>

InitPoll ==
    /\ components = EmptyScene
    /\ frameDelta = 0
    /\ InitCommon

StartPolling == startPolling

PollingInterval == pollingInterval

StopPolling == stopPolling

\* The component records the polled endpoint answers with.
PollData == { w \in ApiData : "cdpFault" \in DOMAIN w }

Response == \E n \in 1..MaxRequests, w \in PollData : fetchAndUpdate(n, w)

Failure == \E n \in 1..MaxRequests, kind \in FailureKinds : fetchFailed(n, kind)

TogglePolling == togglePolling

NextPoll ==
    \/ StartPolling
    \/ PollingInterval
    \/ StopPolling
    \/ Response
    \/ Failure
    \/ TogglePolling

SpecPoll == InitPoll /\ [][NextPoll]_vars

\* C15: once polling has been stopped the polled feed never replaces the
\* snapshot again, whatever requests were in flight at the stop: every
\* application of a polled payload happens while polling is active.
C15_NoUpdateAfterStop ==
    last.op = "updatePlantData" => polling.isPolling

\* C16: at most one polled request is in flight at any time, and payloads
\* are applied in the order their requests were issued.
C16_OneInFlightInOrder ==
    /\ Cardinality(polling.inFlight) <= 1
    /\ \A i, j \in DOMAIN polling.applied :
          i < j => polling.applied[i] < polling.applied[j]

(***************************************************************************)
(* SpecMap: loading the model.  model.traverse visits the nodes of the     *)
(* file and mapComponent registers each by its name.  components.index is  *)
(* the registry: "tanks.RWT", "pumps.CDP", ... -> the nodes stored there,  *)
(* a node given by its name.                                               *)
(***************************************************************************)
\* String.prototype.toUpperCase, letter by letter.
UpperChar(c) ==
    LET lower == "abcdefghijklmnopqrstuvwxyz"
        upper == "ABCDEFGHIJKLMNOPQRSTUVWXYZ"
        at == { i \in 1..Len(lower) : SubSeq(lower, i, i) = c }
    IN IF at = {} THEN c ELSE SubSeq(upper, CHOOSE i \in at : TRUE, CHOOSE i \in at : TRUE)

RECURSIVE toUpperCase(_)
toUpperCase(str) ==
    IF Len(str) = 0 THEN ""
    ELSE UpperChar(SubSeq(str, 1, 1)) \o toUpperCase(SubSeq(str, 2, Len(str)))

\* String.prototype.includes
includes(str, pattern) ==
    \E i \in 1..(Len(str) - Len(pattern) + 1) :
        SubSeq(str, i, i + Len(pattern) - 1) = pattern

\* The slots one call of mapComponent writes for a node whose upper-cased
\* name is name: every `if` of the function is tried, none is an else of
\* another; within a tank rule the inner else-if chain picks one slot.
Slots(name) ==
    (IF includes(name, "RECBRINE_TANK_TANK")
     THEN (IF includes(name, "WATER") THEN {"tanks.RWT_Water"} ELSE {"tanks.RWT"})
     ELSE {})
    \cup (IF includes(name, "WASTEBRINE_TANK")
          THEN (IF includes(name, "WATER") THEN {"tanks.CFT_Water"}
                ELSE IF includes(name, "MIXER") THEN {"mixers.CFT_Mixer"}
                ELSE {"tanks.CFT"})
          ELSE {})
    \cup (IF includes(name, "REGTANKS_TANK_TANK")
          THEN (IF includes(name, "WATER") THEN {"tanks.SCT_Water"}
                ELSE IF includes(name, "SCRAPER") THEN {"mixers.SCT_Scraper"}
                ELSE IF includes(name, "SLUDGE") THEN {"tanks.SCT_Sludge"}
                ELSE {"tanks.SCT"})
          ELSE {})
    \cup (IF includes(name, "SATTANK_TANK_TANK")
          THEN (IF includes(name, "WATER") THEN {"tanks.CWT_Water"} ELSE {"tanks.CWT"})
          ELSE {})
    \cup (IF includes(name, "RESINTANK_TANK")
          THEN (IF includes(name, "WATER") \/ includes(name, "SLUDGE")
                THEN {"tanks.SLT_Water"} ELSE {"tanks.SLT"})
          ELSE {})
    \cup (IF includes(name, "CDP") \/ includes(name, "PUMP2_") THEN {"pumps.CDP"} ELSE {})
    \cup (IF includes(name, "PUMP1_") \/ includes(name, "PPS") THEN {"pumps.PPS"} ELSE {})
    \cup (IF includes(name, "FTR") \/ includes(name, "FILTER") THEN {"filters.FTR"} ELSE {})
    \cup (IF includes(name, "PIPE") THEN {"pipes." \o name} ELSE {})

\* The nodes stored in a slot of the registry.
StoredIn(index, slot) == IF slot \in DOMAIN index THEN index[slot] ELSE <<>>

\* mapComponent(object): the registry after the call.  addToTankArray
\* appends to a tank slot, every other slot holds the last node assigned.
mapComponent(index, node) ==
    LET slots == Slots(toUpperCase(node))
    IN [slot \in DOMAIN index \cup slots |->
          IF slot \notin slots THEN index[slot]
          ELSE IF includes(slot, "tanks.") THEN Append(StoredIn(index, slot), node)
          ELSE <<node>>]

\* The scene summary of a registry: bodies per tank key, a water mesh of
\* full scale per water node, the pumps found.
SceneOf(index, visited) ==
    [tanks |-> [key \in DOMAIN NoTanks |-> Len(StoredIn(index, "tanks." \o key))],
     water |-> [key \in DOMAIN NoWater |->
                  [i \in 1..Len(StoredIn(index, "tanks." \o key)) |-> Unit]],
     pumps |-> { key \in {"CDP", "PPS"} : StoredIn(index, "pumps." \o key) # <<>> },
     index |-> index,
     visited |-> visited]

\* Names of nodes of a model file.
NodeNames ==
    { "RecBrine_Tank_Tank_1", "recbrine_tank_tank_water", "WasteBrine_Tank_Filter",
      "Pipe_Pump1_A", "RegTanks_Tank_Tank_Sludge_Scraper", "Pump2_Motor",
      "SatTank_Tank_Tank_2", "Ground" }

InitMap ==
    /\ components = SceneOf(NoProps, {})
    /\ frameDelta = 0
    /\ InitCommon

\* model.traverse: the next node of the file is visited.
MapComponent ==
    \E node \in NodeNames \ components.visited :
        /\ Cardinality(components.visited) < MaxNodes
        /\ components' = SceneOf(mapComponent(components.index, node),
                                 components.visited \cup {node})
        /\ last' = Record("mapComponent", [name |-> node], 0)
        /\ UNCHANGED <<plantData, dashboard, labelText, levels, simulationInterval, intervalTimers,
                       frameDelta, ticks, updates, fxVars, clockTime, polling>>

NextMap == MapComponent

SpecMap == InitMap /\ [][NextMap]_vars

\* The slots of the registry that hold a node.
SlotsHolding(node) ==
    { slot \in DOMAIN components.index :
        \E i \in DOMAIN components.index[slot] : components.index[slot][i] = node }

\* C17: every node visited is registered in no slot or in exactly one slot
\* of the scene index, also when its name matches several rules.
C17_OneBucket ==
    \A node \in components.visited : Cardinality(SlotsHolding(node)) <= 1

(***************************************************************************)
(* SpecMixer: the rotating components.  Payloads set the status flags,     *)
(* frames of either frame time are rendered.                               *)
(***************************************************************************)
\* The flocculation tank with an object and the settling tanks with an
\* array of two readings or with one object, each flag on or off.
MixerPayloads ==
    { [CFT |-> Obj([Level |-> 5500, Mixer_Status |-> on])] : on \in BOOLEAN }
    \cup { [SCT |-> Arr(<<[Level |-> 7000, Scraper_Status |-> on],
                          [Level |-> 6800, Scraper_Status |-> on]>>)] : on \in BOOLEAN }
    \cup { [SCT |-> Obj([Level |-> 7000, Scraper_Status |-> on])] : on \in BOOLEAN }

\* A scene with both rotating nodes, at rotation 0, and nothing else.
InitMixer ==
    /\ components = EmptyScene
    /\ frameDelta = 0
    /\ InitData
    /\ pumpNodes = NoProps
    /\ pipeNodes = NoProps
    /\ mixerRotation = [m \in {"CFT_Mixer", "SCT_Scraper"} |-> 0]

MixerUpdate ==
    \E payload \in MixerPayloads :
        /\ updates < MaxUpdates
        /\ updatePlantData(payload)
        /\ updates' = updates + 1
        /\ UNCHANGED <<simulationInterval, intervalTimers, polling>>

MixerAnimate ==
    \E elapsed \in Elapsed :
        /\ ticks < MaxTicks
        /\ animate(elapsed)
        /\ ticks' = ticks + 1

NextMixer ==
    \/ MixerUpdate
    \/ MixerAnimate

SpecMixer == InitMixer /\ [][NextMixer]_vars

\* The scraper's status flag in the snapshot: of the first reading when
\* SCT is an array, as the dashboard shows it.
ScraperFlag == Truthy(FirstOf(plantData, "SCT"), "Scraper_Status")

MixerFlag == Truthy(ObjOf(plantData, "CFT"), "Mixer_Status")

\* The rotation a frame of the given frame time adds at rate milliradians
\* per second.
Turn(rate, elapsed) == (rate * Min(elapsed, MaxDeltaMs)) \div 1000

\* C18: in every frame the mixer turns by 2 rad/s times delta and the
\* scraper by 0.5 rad/s times delta exactly when its status flag in the
\* snapshot is true (SCT an array of readings included), and a node whose
\* flag is false keeps its rotation.
C18_RotatesWhileOn ==
    last.op = "animate" =>
      /\ mixerRotation["CFT_Mixer"] = last.mixerRotation["CFT_Mixer"]
            + (IF MixerFlag THEN Turn(2000, last.elapsed) ELSE 0)
      /\ mixerRotation["SCT_Scraper"] = last.mixerRotation["SCT_Scraper"]
            + (IF ScraperFlag THEN Turn(500, last.elapsed) ELSE 0)

(***************************************************************************)
(* Properties of absent fields over the data path (Spec).                  *)
(***************************************************************************)
\* Dashboard cells that show a number of an object-valued subsystem:
\* <<element id, subsystem, field>>.
NumericCells ==
    { <<"rwt-level", "RWT", "Level">>, <<"rwt-ph", "RWT", "pH">>,
      <<"rwt-turbidity", "RWT", "Turbidity">>, <<"rwt-inflow", "RWT", "Inflow_Rate">>,
      <<"rwt-outflow", "RWT", "Outflow_Rate">>, <<"cst-level", "CST", "Level">>,
      <<"cft-level", "CFT", "Level">>, <<"cft-ph", "CFT", "pH">>,
      <<"slt-level", "SLT", "Level">>, <<"cdp-rate", "CDP", "Dosing_Rate">>,
      <<"pps-flow", "PPS", "Flow_Rate">>, <<"plt-inflow", "PLT", "Total_Inflow">> }

\* C19: after every refresh of the dashboard, a cell whose source value is
\* absent from the snapshot shows the placeholder '--'.
C19_PlaceholderWhenAbsent ==
    last.op \in {"updatePlantData", "clearData"} =>
      \A cell \in NumericCells :
        ~Has(ObjOf(plantData, cell[2]), cell[3]) => dashboard[cell[1]].text = Txt("--")

\* The numeric fields of a subsystem: those of its default reading.
NumericFields(key) ==
    DOMAIN getDefaultPayload[key].elems[1]
    \ {"High_Level_Alarm", "Low_Level_Alarm", "Status", "Mode", "Fault",
       "Mixer_Status", "Scraper_Status", "Backwash_Status", "Pump_Status",
       "System_Mode", "Alarm_Status"}

\* C20: in every state every subsystem of the snapshot has a reading (one
\* per instance for an array-valued subsystem) and every numeric field of
\* every reading is defined.
C20_NumericFieldsDefined ==
    \A key \in DOMAIN getDefaultPayload :
      /\ key \in DOMAIN plantData
      /\ Len(plantData[key].elems) >= 1
      /\ \A i \in DOMAIN plantData[key].elems :
            NumericFields(key) \subseteq DOMAIN plantData[key].elems[i]

(***************************************************************************)
(* SpecScene: frames over scenes that lack some of the semantic keys.  The *)
(* loaded model has every key, one key, every key but one, or none.        *)
(***************************************************************************)
SceneKeys == TankKeys \cup {"CDP", "PPS", "CFT_Mixer", "SCT_Scraper", "PIPE_01"}

\* The scene index holding exactly the keys of present.
SceneWith(present) ==
    LET n(key) == IF key \notin present THEN 0
                  ELSE IF key \in {"SCT", "CWT"} THEN 2 ELSE 1
    IN Scene([key \in TankKeys |-> n(key)],
             [w \in DOMAIN NoWater |->
                [i \in 1 .. n(SubSeq(w, 1, 3)) |-> Unit]],
             present \cap {"CDP", "PPS"})

KeySubsets ==
    { present \in SUBSET SceneKeys :
        Cardinality(present) <= 1 \/ Cardinality(SceneKeys \ present) <= 1 }

\* Snapshots in which every subsystem drives its component, in which every
\* subsystem is null, and in which the two-instance tanks come as arrays.
ScenePayloads ==
    { [RWT |-> Obj([Level |-> 9000, High_Level_Alarm |-> TRUE]),
       CST |-> Obj([Level |-> 1500, Low_Level_Alarm |-> TRUE]),
       CFT |-> Obj([Level |-> 5500, Mixer_Status |-> TRUE]),
       SCT |-> Obj([Level |-> 7000, Scraper_Status |-> TRUE]),
       CWT |-> Arr(<<[Level |-> 8000, Low_Level_Alarm |-> TRUE],
                     [Level |-> 2000, High_Level_Alarm |-> TRUE]>>),
       SLT |-> Obj([Level |-> 6000]),
       CDP |-> Obj([Status |-> TRUE, Fault |-> FALSE]),
       PPS |-> Obj([Status |-> TRUE, Fault |-> TRUE, Flow_Rate |-> 10500])],
      [key \in {"RWT", "CST", "CFT", "SCT", "CWT", "SLT", "CDP", "PPS"} |-> Null],
      [SCT |-> Arr(<<[Level |-> 7000], [Level |-> 6800], [Level |-> 100]>>),
       CWT |-> Obj([Level |-> 4000, High_Level_Alarm |-> TRUE])] }

InitScene ==
    /\ \E present \in KeySubsets :
         /\ components = SceneWith(present)
         /\ mixerRotation = [m \in present \cap {"CFT_Mixer", "SCT_Scraper"} |-> 0]
         /\ pipeNodes = [k \in present \cap {"PIPE_01"} |-> PipeNode(TRUE)]
    /\ frameDelta = 0
    /\ InitData
    /\ pumpNodes = [key \in components.pumps |-> PumpNode(1500)]

SceneUpdate ==
    \E payload \in ScenePayloads :
        /\ updates < MaxUpdates
        /\ updatePlantData(payload)
        /\ updates' = updates + 1
        /\ UNCHANGED <<simulationInterval, intervalTimers, polling>>

SceneAnimate ==
    \E time \in {0, 157} :
        /\ ticks < MaxFrames
        /\ animateAt(50, time)
        /\ clockTime' = time
        /\ ticks' = ticks + 1

NextScene ==
    \/ SceneUpdate
    \/ SceneAnimate

SpecScene == InitScene /\ [][NextScene]_vars

\* The animation-state keys of the water meshes a scene has.
AnimKeysOf(comps) ==
    UNION { { AnimKey(w, i) : i \in 0 .. Len(comps.water[w]) - 1 } \cup
            (IF Len(comps.water[w]) > 0 THEN {w} ELSE {}) : w \in DOMAIN comps.water }
    \cup (IF comps.tanks["SLT"] > 0 THEN {"SLT_Water_Cone", "SLT_Water_Cylinder"}
          ELSE {})

\* C21: whatever keys the scene index has, and whatever the snapshot, a
\* frame can be rendered, and it writes state for no key the scene lacks:
\* no animation entry of a missing water mesh, no pump, mixer, pipe or
\* tank body that was not there before.
C21_MissingKeysUntouched ==
    [][ /\ ENABLED (animateAt(50, 0) /\ UNCHANGED <<ticks, clockTime>>)
        /\ last'.op = "animate" =>
             /\ DOMAIN levels' \subseteq AnimKeysOf(components)
             /\ DOMAIN pumpNodes' = components.pumps
             /\ DOMAIN mixerRotation' = DOMAIN mixerRotation
             /\ DOMAIN pipeNodes' = DOMAIN pipeNodes
             /\ \A key \in TankKeys :
                   DOMAIN tankGlow'[key] = 1 .. components.tanks[key] ]_vars

\* A frame was rendered on the empty scene under a snapshot with alarms and
\* running machines, and left every collection empty.
C21_Witness ==
    /\ components = EmptyScene
    /\ last.op = "animate"
    /\ Truthy(ObjOf(plantData, "CFT"), "Mixer_Status")
    /\ activeAlarms # <<>>
    /\ levels = NoProps
    /\ pumpNodes = NoProps
    /\ mixerRotation = NoProps
    /\ pipeNodes = NoProps

(***************************************************************************)
(* SpecPipe: the flow effect of the pipes.  Payloads set the flow rate of  *)
(* the pump station, frames are rendered at the clock readings.            *)
(***************************************************************************)
\* The pump station with a flow, without flow and without a flow reading.
PipePayloads ==
    { [PPS |-> Obj([Status |-> TRUE, Flow_Rate |-> 9000])],
      [PPS |-> Obj([Status |-> FALSE, Flow_Rate |-> 0])],
      [PPS |-> Obj([Status |-> FALSE])] }

\* A scene of two pipes, one with a texture map and one without.
InitPipe ==
    /\ components = EmptyScene
    /\ frameDelta = 0
    /\ InitData
    /\ pumpNodes = NoProps
    /\ mixerRotation = NoProps
    /\ pipeNodes = [k \in {"PIPE_01", "PIPE_02"} |-> PipeNode(k = "PIPE_01")]

PipeUpdate ==
    \E payload \in PipePayloads :
        /\ updates < MaxUpdates
        /\ updatePlantData(payload)
        /\ updates' = updates + 1
        /\ UNCHANGED <<simulationInterval, intervalTimers, polling>>

PipeAnimate ==
    \E elapsed \in Elapsed, time \in ClockReadings :
        /\ ticks < MaxFrames
        /\ animateAt(elapsed, time)
        /\ clockTime' = time
        /\ ticks' = ticks + 1

NextPipe ==
    \/ PipeUpdate
    \/ PipeAnimate

SpecPipe == InitPipe /\ [][NextPipe]_vars

\* C22: after every frame rendered while the flow rate is zero (or there
\* is no flow reading), no pipe shows the flow effect: its emissive is not
\* the clean-water pulse, and its texture did not scroll in that frame.
C22_NoEffectWithoutFlow ==
    (last.op = "animate" /\ FlowRate(plantData) = 0) =>
        \A k \in DOMAIN pipeNodes : pipeNodes[k].color # "cleanWater"

(***************************************************************************)
(* The smoothing law of the compound tank, checked under SpecSLT.          *)
(***************************************************************************)
\* The level of the sludge tank in the snapshot, and the frame time of the
\* last frame in milliseconds.
SltLevel == DataOf(plantData, "SLT")[1]

LastDelta == Min(last.elapsed, MaxDeltaMs)

\* The share of the level each stage is moved toward.
ConeTarget == IF SltLevel <= 2500 THEN ConeFillPercent(SltLevel) ELSE Unit

CylinderTarget == IF SltLevel <= 2500 THEN 0 ELSE CylinderFillPercent(SltLevel)

\* A frame of the compound tank was rendered.
SltTicked ==
    /\ last.op = "animate"
    /\ "SLT_Water_Cone" \in DOMAIN levels
    /\ Len(DataOf(plantData, "SLT")) = 1

\* C23 as stated: in every frame each stage either rests or moves by
\* (target - current) * 2 * dt, toward its share of the level or (the cone,
\* while the cylinder holds water) toward 1.0.
C23_SameLawBothStages ==
    SltTicked =>
        /\ Cone \in { PrevCone, lerp(PrevCone, ConeTarget, 2 * LastDelta),
                       lerp(PrevCone, Unit, 2 * LastDelta) }
        /\ Cylinder \in { PrevCylinder,
                           lerp(PrevCylinder, CylinderTarget, 2 * LastDelta) }

\* C23, amended: the cone moves by (target - current) * 2 * dt or is set to
\* 1.0 from 0.99 or above; the cylinder moves by (target - current) * 2 * dt
\* while the level is above 25 and the cone above 0.99, is set to 0 while
\* the level is above 25 and the cone is not above 0.99, and moves by
\* (0 - current) * 4 * dt while the level is 25 or below.
C23_LawWithFastDrain ==
    SltTicked =>
        /\ \/ Cone \in { lerp(PrevCone, ConeTarget, 2 * LastDelta),
                          lerp(PrevCone, Unit, 2 * LastDelta) }
           \/ Cone = Unit /\ 100 * PrevCone >= 99 * Unit
        /\ SltLevel <= 2500 => Cylinder = lerp(PrevCylinder, 0, 4 * LastDelta)
        /\ SltLevel > 2500 =>
              \/ Cylinder = lerp(PrevCylinder, CylinderTarget, 2 * LastDelta)
                   /\ 100 * Cone > 99 * Unit
              \/ Cylinder = 0 /\ 100 * Cone <= 99 * Unit

\* A frame drained a filled cylinder at the doubled rate, farther than the
\* law of the standard tanks would.
C23_Witness ==
    /\ SltTicked
    /\ SltLevel <= 2500
    /\ 2 * PrevCylinder > Unit
    /\ Cylinder = lerp(PrevCylinder, 0, 4 * LastDelta)
    /\ Cylinder < lerp(PrevCylinder, 0, 2 * LastDelta)

(***************************************************************************)
(* SpecShape: the full plant fed with the two shapes of a two-instance     *)
(* tank's reading, an array of readings and a single object, every level   *)
(* within 0 .. 100.                                                        *)
(***************************************************************************)
ShapePayloads ==
    { [SCT |-> Arr(<<[Level |-> 0], [Level |-> 10000]>>)],
      [SCT |-> Obj([Level |-> 5000, Scraper_Status |-> TRUE])],
      [CWT |-> Obj([Level |-> 4000])],
      [RWT |-> Obj([Level |-> 10000]), SLT |-> Obj([Level |-> 0])] }

InitShape ==
    /\ components = FullScene
    /\ frameDelta = 0
    /\ InitCommon

ShapeUpdate ==
    \E payload \in ShapePayloads :
        /\ updates < MaxUpdates
        /\ updatePlantData(payload)
        /\ updates' = updates + 1
        /\ UNCHANGED <<simulationInterval, intervalTimers, polling>>

ShapeAnimate ==
    \E elapsed \in Elapsed :
        /\ ticks < MaxFrames
        /\ animate(elapsed)
        /\ ticks' = ticks + 1

NextShape ==
    \/ ShapeUpdate
    \/ ShapeAnimate

SpecShape == InitShape /\ [][NextShape]_vars

\* C24: every animation-state entry is a number from 0.0 to 1.0 (the full
\* scale of the mesh, which is 1.0 for every mesh of the full plant), never
\* not-a-number.
C24_EntriesAreFractions ==
    \A k \in DOMAIN levels :
        /\ levels[k] # NaN
        /\ 0 <= levels[k]
        /\ levels[k] <= Unit

(***************************************************************************)
(* The simulation timer, checked under Spec.                               *)
(***************************************************************************)
\* The payloads the interval callback can build.
SimPayloads == { simData(r, s) : r \in RandomDraws, s \in RandomDraws }

\* C25: at most one simulation timer is live, and simulationInterval holds
\* it exactly while it is live; after startSimulation, first or repeated,
\* there is exactly one; a simulated payload is applied by updatePlantData
\* (merged into the snapshot, the dashboard refreshed from the result) and
\* only while the timer is live, so none is applied between stopSimulation
\* and the next startSimulation.
C25_SingleTimer ==
    /\ intervalTimers <= 1
    /\ simulationInterval <=> intervalTimers = 1
    /\ last.op = "startSimulation" => intervalTimers = 1
    /\ last.op = "stopSimulation" => intervalTimers = 0
    /\ (last.op = "updatePlantData" /\ last.payload \in SimPayloads) =>
          /\ simulationInterval
          /\ plantData = SpreadMerge(last.plantData, last.payload)
          /\ dashboard = updateDashboard(plantData)

\* A second payload was applied, built by the interval callback, while the
\* one timer was live.
C25_Witness ==
    /\ last.op = "updatePlantData"
    /\ last.payload \in SimPayloads
    /\ updates = 2
    /\ intervalTimers = 1

C27_FlagMatchesTimer ==
    /\ polling.isPolling <=> polling.timer
    /\ polling.timers = IF polling.isPolling THEN 1 ELSE 0
    /\ last.op = "startPolling" =>
          /\ polling.isPolling
          /\ last.payload.wasPolling =>
                /\ polling.timers = last.payload.timersBefore
                /\ polling.issued = last.payload.issuedBefore
    /\ last.op = "stopPolling" =>
          /\ ~polling.isPolling
          /\ ~last.payload.wasPolling =>
                /\ polling.timers = last.payload.timersBefore
                /\ polling.connectionStatus = last.payload.statusBefore
    /\ last.op = "togglePolling" => polling.isPolling # last.payload.wasPolling

\* startPolling was called while polling, after a response had arrived.
C27_Witness ==
    /\ last.op = "startPolling"
    /\ last.payload.wasPolling
    /\ polling.timers = 1
    /\ polling.applied # <<>>

\* C28: after the handling of a response with status 401 the client is not
\* authenticated, polling is stopped with no timer live, the snapshot is
\* the one before the response, and the connection status is 'error'.
C28_Unauthorized ==
    (last.op = "fetchFailed" /\ last.payload.kind = "unauthorized") =>
        /\ ~polling.isAuthenticated
        /\ ~polling.isPolling
        /\ polling.timers = 0
        /\ plantData = last.plantData
        /\ polling.connectionStatus = "error"

\* A 401 arrived while polling was active and the connection marked
\* connected by an earlier response.
C28_Witness ==
    /\ last.op = "fetchFailed"
    /\ last.payload.kind = "unauthorized"
    /\ last.payload.wasPolling
    /\ last.payload.errorsBefore = 0
    /\ polling.applied # <<>>
    /\ plantData # getDefaultPayload
    /\ ~polling.isAuthenticated

\* C29: a polling session is not stopped by a failed fetch (none of them a
\* 401) before maxRetries fetches have failed since it was started.
C29_ToleratesRetries ==
    (/\ last.op = "fetchFailed"
     /\ last.payload.kind # "unauthorized"
     /\ last.payload.wasPolling
     /\ polling.isAuthenticated
     /\ polling.failedSinceStart < maxRetries) => polling.isPolling

(***************************************************************************)
(* The stages of the compound tank never overlap out of order (SpecSLT).   *)
(***************************************************************************)
\* C30: after every frame of the compound tank, a cylinder fraction of 0.01
\* or more comes with a cone fraction above 0.99; and no frame takes the
\* branch that moves the cone toward 1.0 from below 0.99 while, at a level
\* of 25 or less, the cylinder still holds 0.01 or more.
C30_CylinderOnlyOverFullCone ==
    SltTicked =>
        /\ 100 * Cylinder >= Unit => 100 * Cone > 99 * Unit
        /\ ~(/\ SltLevel <= 2500
              /\ 100 * Cylinder >= Unit
              /\ 100 * PrevCone < 99 * Unit)

\* A frame at a level within the cone found the cylinder still holding
\* water and set the cone, which was above 0.99 but not full, to 1.0.
C30_Witness ==
    /\ SltTicked
    /\ SltLevel <= 2500
    /\ 100 * Cylinder >= Unit
    /\ PrevCone < Unit
    /\ Cone = Unit

====
